---- MODULE Spec2Model ----
(***************************************************************************)
(* State-machine model of seo_scraper.py: scrape_pages, that is            *)
(* discover_site_content (static harvest, dynamic harvest) followed by     *)
(* the concurrent extraction workers that share the DriverPool.            *)
(*                                                                         *)
(* A URL is a sequence of tokens: the first token is scheme+host, the      *)
(* following tokens are path pieces, "#" starts the fragment.  A text is   *)
(* a sequence of one-character strings.                                    *)
(***************************************************************************)
EXTENDS Integers, Sequences, FiniteSets, TLC

\* ------------------------------------------------------------------ bounds
\* largest finite dynamic_limit the user enters
MaxLimit == 2
\* most elements one trigger selector shows as displayed
MaxElems == 2
\* page heights / page-source versions the renderer can report
MaxVersion == 2
\* largest max_urls the user enters
MaxUrls == 2

\* ------------------------------------------------------- program constants
PoolSize == 3
MaxWorkers == 3
BatchSize == 5
StaticBatch == 10
ScrollThreshold == 3
MinTextLen == 20

\* dynamic_limit=None, max_urls=None
None == -1
\* a local variable that has not been assigned yet
Unbound == <<"unbound">>

\* ------------------------------------------------------------ the web site
BaseUrl == <<"B">>
UrlBlog == <<"B", "/blog/", "a">>
UrlLogin == <<"B", "/login">>
UrlExt == <<"X", "/p">>
UrlNews == <<"B", "/news/", "n">>

\* the hrefs of each page after urljoin(base, href)
Anchors(url) ==
    IF url = BaseUrl THEN {<<"B", "#", "top">>, UrlBlog, UrlLogin, UrlExt}
    ELSE IF url = UrlBlog THEN {BaseUrl, <<"B", "/blog/", "a", "#", "c1">>}
    ELSE {}

\* ------------------------------------------------------------ URL helpers
RECURSIVE BeforeHash(_)
BeforeHash(u) ==
    IF u = <<>> \/ Head(u) = "#" THEN <<>>
    ELSE <<Head(u)>> \o BeforeHash(Tail(u))

Contains(u, tok) == \E i \in 1..Len(u) : u[i] = tok

clean_url(url) == IF Contains(url, "#") THEN BeforeHash(url) ELSE url

startswith(url, prefix) ==
    /\ Len(url) >= Len(prefix)
    /\ SubSeq(url, 1, Len(prefix)) = prefix

is_valid_url(url) == url # <<>> /\ Head(url) \in {"B", "X"}

\* a pattern list without the bare "#"
unwanted_patterns_without_hash ==
    {"/cookie-policy", "/privacy-policy", "/terms-and-conditions",
     "/about-us", "/contact", "/careers", "/sitemap", "/login",
     "/register", "/signup", "/cart", "/checkout", "/account",
     "/wp-admin", "/wp-login", "/feed", "/rss", "/xmlrpc.php",
     "mailto:", "tel:", "javascript:"}
\* lines 203-209
unwanted_patterns ==
    {"/cookie-policy", "/privacy-policy", "/terms-and-conditions",
     "/about-us", "/contact", "/careers", "/sitemap", "/login",
     "/register", "/signup", "/cart", "/checkout", "/account",
     "/wp-admin", "/wp-login", "/feed", "/rss", "/xmlrpc.php",
     "mailto:", "tel:", "javascript:", "#"}

is_unwanted_link(url, base_url) ==
    LET is_external == ~startswith(url, base_url)
        is_unwanted == \E p \in unwanted_patterns : Contains(url, p)
    IN  is_external \/ is_unwanted

classify_url(url) ==
    IF \E e \in {".pdf", ".doc", ".docx", ".xls", ".xlsx", ".ppt", ".pptx"} :
           Contains(url, e) THEN "document"
    ELSE IF \E e \in {".jpg", ".jpeg", ".png", ".gif", ".svg", ".webp"} :
           Contains(url, e) THEN "image"
    ELSE IF \E p \in {"/blog/", "/article/", "/post/", "/news/", "/resources/",
                      "/insights/", "/knowledge/", "/case-study",
                      "/white-paper", "/report"} :
           Contains(url, p) THEN "article"
    ELSE "page"

find_all_links(anchors, base_url) ==
    {clean_url(full_url) : full_url \in {a \in anchors : is_valid_url(a)}}

Kinds == <<"page", "article", "document", "image", "api_endpoints">>
KindSet == {Kinds[i] : i \in 1..Len(Kinds)}
EmptyMap == [k \in KindSet |-> {}]

Min(a, b) == IF a < b THEN a ELSE b

\* ------------------------------------------------------------------ state
\* the exclude_types the user selects
ExcludeChoices == {{}, {"text"}}

VARIABLES
    dynamic_limit,      \* discover_site_content argument: None or 0..MaxLimit
    pc,                 \* position of the main thread
    drivers,            \* DriverPool.drivers: the queue of idle sessions
    content_map,        \* kind -> set of URLs
    processed_urls,     \* discover_site_content: visited set
    to_process,         \* discover_site_content: frontier
    pending,            \* futures of the current static batch not yet consumed
    clean_result_url,   \* local of the as_completed loop (survives iterations)
    messages,           \* progress log, as the set of kinds of message logged
    driver,             \* discover_site_content: the session it holds, 0 = none
    scroll_count,       \* dynamic loop: no-change counter
    last_height,        \* dynamic loop: last document height seen
    content_hash,       \* dynamic loop: hash of the last page source, 0 = ""
    dynamic_attempts,   \* dynamic loop: trigger activations so far
    trigger,            \* dynamic loop: index of the next trigger selector
    revealed,           \* history: this iteration has shown new content
    quiet,              \* history: consecutive finished iterations without any
    max_urls,           \* scrape_pages argument: None or a positive number
    exclude_types,      \* scrape_pages argument: subset of {"text", "links"}
    urls_to_process,    \* scrape_pages: sequence of <<url, content_type>>
    batch_start,        \* scrape_pages: i of the batch loop
    tstate,             \* per submitted task: position of its extract_content
    tdriver,            \* per task: the session its extract_content holds
    tcontent,           \* per task: the content list of its extract_content
    processed_count,    \* scrape_pages: results consumed so far
    all_content,        \* scrape_pages: the aggregate
    result,             \* what scrape_pages returned, Unbound before
    dequeued,           \* history: the URLs taken out of the frontier
    failed,             \* history: the URLs whose static fetch failed
    traised,            \* history, per task: the renderer raised in its call
    crashed,            \* the renderer sessions whose browser has crashed
    processed_base_urls,\* the function attribute of is_unwanted_link
    page_anchors,       \* the absolute hrefs of a page handed to find_all_links
    found_links,        \* what find_all_links returned for them
    calls,              \* history: the calls of is_unwanted_link, in order
    artifact,           \* main: the lines written to the analysis file
    written_from,       \* history: the index in content of each written line
    variant,            \* which recursive scrape_page runs
    site,               \* the hrefs of the a elements of each page, in order
    stack,              \* scrape_page: the frames of the recursion
    fetched,            \* history: every requests.get, in order
    strategies,         \* advanced_web_scraperv3 main: the strategy list
    start_page,         \* what the rendered start page offers to the strategies
    strategy_i,         \* load_more_content: index of the for loop
    all_links,          \* the list load_more_content returned
    strategy_results,   \* load_more_content: the outcomes it reports
    executed,           \* history: the strategies whose execute was called
    to_visit,           \* adaptive_crawl: the frontier, <<url, depth>> pairs
    visited,            \* adaptive_crawl, selenium_tool scrape_pages: visited
    futures,            \* every task submitted to the executor, in order
    future_to_url,      \* the futures the dict holds (indices into futures)
    depth,              \* adaptive_crawl: depth of the last URL popped
    max_depth           \* adaptive_crawl argument

discVars == <<processed_urls, to_process, pending, clean_result_url, dequeued,
              failed>>
dynVars == <<driver, scroll_count, last_height, content_hash, dynamic_attempts,
             trigger, revealed, quiet>>
taskVars == <<tstate, tdriver, tcontent, traised>>
extVars == <<max_urls, exclude_types, urls_to_process, batch_start, tstate, tdriver, tcontent,
             traised, processed_count, all_content, result>>
crawlVars == <<strategies, start_page, strategy_i, all_links, strategy_results, executed,
               to_visit, visited, futures, future_to_url, depth, max_depth>>
vars == <<dynamic_limit, pc, drivers, content_map, processed_urls, to_process,
          pending, clean_result_url, messages, driver, scroll_count,
          last_height, content_hash, dynamic_attempts, trigger, revealed, quiet,
          max_urls,
          exclude_types, urls_to_process, batch_start, tstate, tdriver, tcontent,
          processed_count, all_content, result, dequeued, failed, traised,
          crashed, processed_base_urls, page_anchors, found_links, calls,
          artifact, written_from, variant, site, stack, fetched,
          strategies, start_page, strategy_i, all_links, strategy_results, executed,
          to_visit, visited, futures, future_to_url, depth, max_depth>>

urlVars == <<processed_base_urls, page_anchors, found_links, calls>>
fileVars == <<artifact, written_from>>
recVars == <<variant, site, stack, fetched>>

\* no recursive scrape_page is running
RecIdle ==
    /\ variant = "none"
    /\ site = <<>>
    /\ stack = <<>>
    /\ fetched = <<>>

\* is_unwanted_link has no attribute yet, no page is being filtered
UrlIdle ==
    /\ processed_base_urls = {}
    /\ page_anchors = {}
    /\ found_links = {}
    /\ calls = <<>>

\* the start page before any session has rendered it
NoPage == [pagination |-> "none", load_more |-> "none", grows |-> FALSE]

\* the state of adaptive_crawl and of selenium_tool's scrape_pages while
\* neither runs
CrawlIdle ==
    /\ strategies = <<>>
    /\ start_page = NoPage
    /\ strategy_i = 0
    /\ all_links = <<>>
    /\ strategy_results = <<>>
    /\ executed = <<>>
    /\ to_visit = <<>>
    /\ visited = {}
    /\ futures = <<>>
    /\ future_to_url = {}
    /\ depth = 0
    /\ max_depth = 0

Init ==
    /\ dynamic_limit \in {None} \cup 0..MaxLimit
    /\ pc = "static"
    /\ drivers = [i \in 1..PoolSize |-> i]
    /\ content_map = EmptyMap
    /\ processed_urls = {}
    /\ to_process = {clean_url(BaseUrl)}
    /\ pending = {}
    /\ clean_result_url = Unbound
    /\ messages = {}
    /\ driver = 0
    /\ scroll_count = 0
    /\ last_height = 0
    /\ content_hash = 0
    /\ dynamic_attempts = 0
    /\ trigger = 0
    /\ revealed = FALSE
    /\ quiet = 0
    /\ max_urls \in {None} \cup 1..MaxUrls
    /\ exclude_types \in ExcludeChoices
    /\ urls_to_process = <<>>
    /\ batch_start = 0
    /\ tstate = <<>>
    /\ tdriver = <<>>
    /\ tcontent = <<>>
    /\ processed_count = 0
    /\ all_content = <<>>
    /\ result = Unbound
    /\ dequeued = {}
    /\ failed = {}
    /\ traised = <<>>
    /\ crashed = {}
    /\ CrawlIdle
    /\ UrlIdle
    /\ artifact = <<>> /\ written_from = <<>>
    /\ RecIdle

\* ---------------------------------------------------------- static harvest
\* lines 343-350: take a batch out of the frontier and submit its fetches
StaticTakeBatch ==
    /\ pc = "static" /\ pending = {} /\ to_process # {}
    /\ \E batch \in SUBSET to_process :
          /\ Cardinality(batch) = Min(StaticBatch, Cardinality(to_process))
          /\ to_process' = to_process \ batch
          /\ pending' = batch
          /\ dequeued' = dequeued \cup batch
    /\ UNCHANGED <<crawlVars, crashed, urlVars, fileVars, recVars, extVars, dynamic_limit, pc, drivers, content_map, processed_urls,
                   clean_result_url, failed, messages, dynVars>>

\* lines 285-301: the result of one fetch
parallel_initial_discovery(url, ok) ==
    IF ok THEN [url |-> clean_url(url), links |-> find_all_links(Anchors(url), url),
                content_type |-> classify_url(url), success |-> TRUE]
    ELSE [url |-> url, links |-> {}, content_type |-> "None", success |-> FALSE]

\* a frontier that follows only the links to plain pages
NewUrlsPagesOnly(links, base_url, processed) ==
    {clean_url(url) : url \in
        {l \in links : /\ startswith(l, base_url)
                       /\ clean_url(l) \notin processed
                       /\ ~is_unwanted_link(l, base_url)
                       /\ classify_url(l) = "page"}}
\* lines 362-365
NewUrls(links, base_url, processed) ==
    {clean_url(url) : url \in
        {l \in links : /\ startswith(l, base_url)
                       /\ clean_url(l) \notin processed
                       /\ ~is_unwanted_link(l, base_url)}}

\* lines 352-371: the main thread consumes one completed future
StaticResult ==
    /\ pc = "static"
    /\ \E url \in pending, ok \in BOOLEAN :
        LET res == parallel_initial_discovery(url, ok) IN
        /\ pending' = pending \ {url}
        /\ failed' = IF res.success THEN failed ELSE failed \cup {url}
        /\ IF res.success
           THEN LET cru == clean_url(res.url)
                    ct == res.content_type IN
                /\ clean_result_url' = cru
                /\ content_map' =
                      IF ct # "None" /\ cru \notin processed_urls
                      THEN [content_map EXCEPT ![ct] = @ \cup {cru}]
                      ELSE content_map
                /\ to_process' = to_process \cup
                                   NewUrls(res.links, BaseUrl, processed_urls)
                /\ processed_urls' = processed_urls \cup {cru}
                /\ pc' = pc
           ELSE IF clean_result_url = Unbound
           THEN \* line 370 reads a local that was never assigned
                /\ pc' = "raised"
                /\ UNCHANGED <<clean_result_url, content_map, to_process,
                               processed_urls>>
           ELSE /\ processed_urls' = processed_urls \cup {clean_result_url}
                /\ UNCHANGED <<clean_result_url, content_map, to_process, pc>>
    /\ UNCHANGED <<crawlVars, crashed, urlVars, fileVars, recVars, extVars, dynamic_limit, drivers, messages, dynVars,
                   dequeued>>

\* line 343 false: the frontier is empty, static harvest is over
StaticDone ==
    /\ pc = "static" /\ pending = {} /\ to_process = {}
    /\ pc' = "dynamic"
    /\ UNCHANGED <<crawlVars, crashed, urlVars, fileVars, recVars, extVars, dynamic_limit, drivers, content_map, messages, discVars,
                   dynVars>>

\* ------------------------------------------------------------- DriverPool
\* line 311-312: queue.Queue.get blocks while the queue is empty
CanGetDriver(q) == q # <<>>
\* a get that leaves the session in the queue
get_driver_peek(q) == [driver |-> Head(q), drivers |-> q]
get_driver(q) == [driver |-> Head(q), drivers |-> Tail(q)]
\* a return that loses the session
return_driver_drop(q, d) == q
\* a return that queues the session twice
return_driver_twice(q, d) == Append(Append(q, d), d)
\* line 314-315
return_driver(q, d) == Append(q, d)

\* --------------------------------------------------------- dynamic harvest
\* what the rendered base page links to, by version of its page source
RenderedAnchors(version) ==
    IF version >= 2 THEN Anchors(BaseUrl) \cup {UrlNews} ELSE Anchors(BaseUrl)

\* lines 411-417: the links harvested from one rendered page
DynamicNewLinks(anchors, base_url, processed) ==
    {clean_link \in {clean_url(l) : l \in find_all_links(anchors, base_url)} :
        clean_link \notin processed /\ startswith(clean_link, base_url)}

\* a harvest that files every new link as a plain page
AddToMapAsPage(map, urls) ==
    [k \in KindSet |-> IF k = "page" THEN map[k] \cup urls ELSE map[k]]
\* lines 414-415
AddToMap(map, urls) ==
    [k \in KindSet |-> map[k] \cup {u \in urls : classify_url(u) = k}]

\* line 374
IsLimited(limit) == limit # None
\* a test that lets the limit 0 through
DynamicEnabledFromZero(limit) == limit >= 0
\* line 375
DynamicEnabled(limit) == limit > 0

\* lines 374-378: a finite limit above 0
DynamicStart ==
    /\ pc = "dynamic"
    /\ IsLimited(dynamic_limit) /\ DynamicEnabled(dynamic_limit)
    /\ CanGetDriver(drivers)
    /\ driver' = get_driver(drivers).driver
    /\ drivers' = get_driver(drivers).drivers
    /\ pc' = "dyn_nav"
    /\ UNCHANGED <<crawlVars, crashed, urlVars, fileVars, recVars, extVars, dynamic_limit, content_map, messages, discVars, scroll_count,
                   last_height, content_hash, dynamic_attempts, trigger, revealed,
                   quiet>>

\* lines 457-458: limit 0
DynamicSkipped ==
    /\ pc = "dynamic"
    /\ IsLimited(dynamic_limit) /\ ~DynamicEnabled(dynamic_limit)
    /\ messages' = messages \cup {"skipped"}
    /\ pc' = "clean"
    /\ UNCHANGED <<crawlVars, crashed, urlVars, fileVars, recVars, extVars, dynamic_limit, drivers, content_map, discVars, dynVars>>

\* lines 380-389: navigation, wait, consent, loop variables; any of the
\* renderer calls may raise
DynamicNavigate ==
    /\ pc = "dyn_nav"
    /\ \/ /\ \E h \in 1..MaxVersion : last_height' = h
          /\ scroll_count' = 0
          /\ content_hash' = 0
          /\ dynamic_attempts' = 0
          /\ pc' = "dyn_loop"
       \/ /\ pc' = "dyn_finally"
          /\ UNCHANGED <<scroll_count, last_height, content_hash,
                         dynamic_attempts>>
    /\ UNCHANGED <<crawlVars, crashed, urlVars, fileVars, recVars, extVars, dynamic_limit, drivers, content_map, messages, discVars,
                   driver, trigger, revealed, quiet>>

\* line 391
LoopGuard(count, attempts, limit) ==
    count < ScrollThreshold /\ attempts < limit

\* lines 391-419: loop test, scroll, compare the page source, harvest links
DynamicScroll ==
    /\ pc = "dyn_loop"
    /\ IF LoopGuard(scroll_count, dynamic_attempts, dynamic_limit)
       THEN \/ \E new_hash \in 1..MaxVersion :
                 /\ IF new_hash # content_hash
                    THEN LET new == DynamicNewLinks(RenderedAnchors(new_hash),
                                                    BaseUrl, processed_urls) IN
                         /\ content_hash' = new_hash
                         /\ scroll_count' = 0
                         /\ content_map' = AddToMap(content_map, new)
                         /\ processed_urls' = processed_urls \cup new
                    ELSE /\ scroll_count' = scroll_count + 1
                         /\ UNCHANGED <<content_hash, content_map,
                                        processed_urls>>
                 /\ revealed' = (new_hash # content_hash)
                 /\ trigger' = 1
                 /\ pc' = "dyn_trigger"
            \/ \* scrollTo or page_source raises
               /\ pc' = "dyn_finally"
               /\ UNCHANGED <<content_hash, scroll_count, content_map,
                              processed_urls, trigger, revealed>>
       ELSE /\ pc' = "dyn_finally"
            /\ UNCHANGED <<content_hash, scroll_count, content_map,
                           processed_urls, trigger, revealed>>
    /\ UNCHANGED <<crawlVars, crashed, urlVars, fileVars, recVars, extVars, dynamic_limit, drivers, messages, to_process, pending,
                   clean_result_url, dequeued, failed, driver, last_height,
                   dynamic_attempts, quiet>>

\* lines 426-435: the clicks made on the displayed elements of one selector;
\* the break at line 435 leaves the loop over the elements only
Clicks(displayed, attempts, limit) ==
    IF displayed = 0 THEN 0
    ELSE IF attempts >= limit THEN 1
    ELSE Min(displayed, limit - attempts)

\* lines 423-437: one selector of ['.load-more', '.infinite-scroll',
\* '.pagination']; an exception ends this selector's clicks early, which is
\* the same as fewer displayed elements
DynamicTrigger ==
    /\ pc = "dyn_trigger"
    /\ \E displayed \in 0..MaxElems :
          dynamic_attempts' = dynamic_attempts
                              + Clicks(displayed, dynamic_attempts, dynamic_limit)
    /\ IF trigger < 3
       THEN trigger' = trigger + 1 /\ pc' = pc
       ELSE trigger' = 0 /\ pc' = "dyn_height"
    /\ UNCHANGED <<crawlVars, crashed, urlVars, fileVars, recVars, extVars, dynamic_limit, drivers, content_map, messages, discVars,
                   driver, scroll_count, last_height, content_hash, revealed,
                   quiet>>

\* lines 439-450: budget test, then compare the document height
DynamicHeight ==
    /\ pc = "dyn_height"
    /\ IF dynamic_attempts >= dynamic_limit
       THEN /\ pc' = "dyn_finally"
            /\ UNCHANGED <<scroll_count, last_height, quiet>>
       ELSE \/ \E new_height \in 1..MaxVersion :
                 /\ IF new_height = last_height
                    THEN scroll_count' = scroll_count + 1
                         /\ UNCHANGED last_height
                    ELSE last_height' = new_height /\ scroll_count' = 0
                 /\ quiet' = IF revealed \/ new_height # last_height
                             THEN 0 ELSE quiet + 1
                 /\ pc' = "dyn_loop"
            \/ \* execute_script raises
               /\ pc' = "dyn_finally"
               /\ UNCHANGED <<scroll_count, last_height, quiet>>
    /\ UNCHANGED <<crawlVars, crashed, urlVars, fileVars, recVars, extVars, dynamic_limit, drivers, content_map, messages, discVars,
                   driver, content_hash, dynamic_attempts, trigger, revealed>>

\* lines 452-456: finally: return_driver
DynamicFinally ==
    /\ pc = "dyn_finally"
    /\ drivers' = return_driver(drivers, driver)
    /\ driver' = 0
    /\ pc' = "clean"
    /\ UNCHANGED <<crawlVars, crashed, urlVars, fileVars, recVars, extVars, dynamic_limit, content_map, messages, discVars, scroll_count,
                   last_height, content_hash, dynamic_attempts, trigger, revealed,
                   quiet>>

\* lines 459-463: dynamic_limit is None
UnlimitedStart ==
    /\ pc = "dynamic"
    /\ ~IsLimited(dynamic_limit)
    /\ CanGetDriver(drivers)
    /\ driver' = get_driver(drivers).driver
    /\ drivers' = get_driver(drivers).drivers
    /\ pc' = "udyn_nav"
    /\ UNCHANGED <<crawlVars, crashed, urlVars, fileVars, recVars, extVars, dynamic_limit, content_map, messages, discVars, scroll_count,
                   last_height, content_hash, dynamic_attempts, trigger, revealed,
                   quiet>>

\* lines 465-472
UnlimitedNavigate ==
    /\ pc = "udyn_nav"
    /\ \/ /\ \E h \in 1..MaxVersion : last_height' = h
          /\ scroll_count' = 0
          /\ content_hash' = 0
          /\ dynamic_attempts' = 0
          /\ pc' = "udyn_loop"
       \/ /\ pc' = "udyn_finally"
          /\ UNCHANGED <<scroll_count, last_height, content_hash,
                         dynamic_attempts>>
    /\ UNCHANGED <<crawlVars, crashed, urlVars, fileVars, recVars, extVars, dynamic_limit, drivers, content_map, messages, discVars,
                   driver, trigger, revealed, quiet>>

\* line 474: the loop test
UnlimitedLoop ==
    /\ pc = "udyn_loop"
    /\ IF scroll_count < ScrollThreshold
       THEN pc' = "udyn_body"
       ELSE pc' = "udyn_finally"
    /\ UNCHANGED <<crawlVars, crashed, urlVars, fileVars, recVars, extVars, dynamic_limit, drivers, content_map, messages, discVars,
                   dynVars>>

\* lines 475-479: the body writes two statistics and nothing the test reads
UnlimitedBody ==
    /\ pc = "udyn_body"
    /\ pc' = "udyn_loop"
    /\ UNCHANGED <<crawlVars, crashed, urlVars, fileVars, recVars, extVars, dynamic_limit, drivers, content_map, messages, discVars,
                   dynVars>>

\* lines 481-485
UnlimitedFinally ==
    /\ pc = "udyn_finally"
    /\ drivers' = return_driver(drivers, driver)
    /\ driver' = 0
    /\ pc' = "clean"
    /\ UNCHANGED <<crawlVars, crashed, urlVars, fileVars, recVars, extVars, dynamic_limit, content_map, messages, discVars, scroll_count,
                   last_height, content_hash, dynamic_attempts, trigger, revealed,
                   quiet>>

\* lines 487-491: clean the map and return it; the arguments and locals of
\* discover_site_content go out of scope (dynamic_limit is read nowhere after
\* this point, and is None from here on)
CleanContentMap ==
    /\ pc = "clean"
    /\ content_map' = [k \in KindSet |-> {clean_url(u) : u \in content_map[k]}]
    /\ pc' = "discovered"
    /\ processed_urls' = {}
    /\ to_process' = {}
    /\ pending' = {}
    /\ clean_result_url' = Unbound
    /\ dequeued' = {}
    /\ failed' = {}
    /\ scroll_count' = 0
    /\ last_height' = 0
    /\ content_hash' = 0
    /\ dynamic_attempts' = 0
    /\ trigger' = 0
    /\ revealed' = FALSE
    /\ quiet' = 0
    /\ dynamic_limit' = None
    /\ UNCHANGED <<crawlVars, crashed, urlVars, fileVars, recVars, extVars, drivers, messages, driver>>

\* ------------------------------------------------------------ page texts
Rep(n, c) == [i \in 1..n |-> c]
TextA == <<" ", "a", " ", " ">> \o Rep(MinTextLen, "b")
TextA2 == <<"a", "\n">> \o Rep(MinTextLen, "b") \o <<" ">>
TextC == Rep(MinTextLen + 1, "c")
TextShort == <<"h", "i">>

Elem(name, text, href, excluded) ==
    [name |-> name, text |-> text, href |-> href, excluded |-> excluded]

\* the rendered document of each resource: its schema.org items in document
\* order, and the element lists of the main-content selectors that match
PageOf(url) ==
    IF url = BaseUrl THEN
        [schema |-> <<>>,
         containers |-> << <<Elem("H1", TextShort, <<>>, FALSE),
                             Elem("P", TextA, <<>>, FALSE),
                             Elem("P", TextA2, <<>>, FALSE),
                             Elem("A", <<>>, <<"/blog/", "a">>, FALSE),
                             Elem("P", TextC, <<>>, TRUE)>> >>]
    ELSE IF url = UrlBlog THEN
        [schema |-> <<[key |-> "ARTICLEBODY", text |-> TextC]>>,
         containers |-> << <<Elem("LI", TextA2, <<>>, FALSE),
                             Elem("P", TextC, <<>>, FALSE)>> >>]
    ELSE
        [schema |-> <<>>,
         containers |-> << <<Elem("P", TextShort, <<>>, FALSE)>>,
                           <<Elem("A", <<>>, UrlExt, FALSE)>> >>]

\* ------------------------------------------------------------- extraction
IsSpace(c) == c \in {" ", "\n", "\t"}

\* re.sub(r'\s+', ' ', text)
RECURSIVE Collapse(_)
Collapse(t) ==
    IF t = <<>> THEN <<>>
    ELSE IF IsSpace(Head(t))
         THEN IF Tail(t) # <<>> /\ IsSpace(Head(Tail(t)))
              THEN Collapse(Tail(t))
              ELSE <<" ">> \o Collapse(Tail(t))
         ELSE <<Head(t)>> \o Collapse(Tail(t))

RECURSIVE LStrip(_)
LStrip(t) == IF t # <<>> /\ IsSpace(Head(t)) THEN LStrip(Tail(t)) ELSE t

RECURSIVE RStrip(_)
RStrip(t) ==
    IF t # <<>> /\ IsSpace(t[Len(t)]) THEN RStrip(SubSeq(t, 1, Len(t) - 1))
    ELSE t

clean_text_raw(text) == text

\* lines 132-135
clean_text(text) ==
    IF text = <<>> THEN <<>> ELSE RStrip(LStrip(Collapse(text)))

\* hashlib.md5(...).hexdigest(): taken as collision free
md5(text) == text

Unit(tag, text) == [tag |-> tag, text |-> text]
TextTags == {"H1", "H2", "H3", "H4", "H5", "H6", "P", "LI"}
SchemaTags == {"ARTICLEBODY", "DESCRIPTION"}

\* urljoin(base_url, href) for an absolute or a root-relative href
urljoin(base_url, href) ==
    IF is_valid_url(href) THEN href ELSE <<Head(base_url)>> \o href

\* lines 515-527
RECURSIVE ScanSchema(_, _, _)
ScanSchema(items, seen, content) ==
    IF items = <<>> THEN [seen |-> seen, content |-> content]
    ELSE LET text == clean_text(Head(items).text)
             hash == md5(text)
         IN  IF hash \notin seen
             THEN ScanSchema(Tail(items), seen \cup {hash},
                             Append(content, Unit(Head(items).key, text)))
             ELSE ScanSchema(Tail(items), seen, content)

\* lines 542-561
RECURSIVE ScanElements(_, _, _, _, _)
ScanElements(elems, seen, content, base_url, exclude) ==
    IF elems = <<>> THEN [seen |-> seen, content |-> content]
    ELSE LET e == Head(elems)
             text == clean_text(e.text)
             hash == md5(text)
             full_url == clean_url(urljoin(base_url, e.href))
         IN
         IF e.excluded
         THEN ScanElements(Tail(elems), seen, content, base_url, exclude)
         ELSE IF e.name \in TextTags
         THEN IF /\ "text" \notin exclude
                 /\ text # <<>> /\ Len(text) > MinTextLen
                 /\ hash \notin seen
              THEN ScanElements(Tail(elems), seen \cup {hash},
                                Append(content, Unit(e.name, text)),
                                base_url, exclude)
              ELSE ScanElements(Tail(elems), seen, content, base_url, exclude)
         ELSE IF e.name = "A" /\ "links" \notin exclude /\ e.href # <<>>
         THEN IF is_valid_url(e.href)
              THEN ScanElements(Tail(elems), seen,
                                Append(content, Unit("EXTERNAL_LINK", full_url)),
                                base_url, exclude)
              ELSE ScanElements(Tail(elems), seen,
                                Append(content, Unit("INTERNAL_LINK", full_url)),
                                base_url, exclude)
         ELSE ScanElements(Tail(elems), seen, content, base_url, exclude)

\* lines 537-565: the selectors in order, until the content list is not empty
RECURSIVE ScanContainers(_, _, _, _, _)
ScanContainers(containers, seen, content, base_url, exclude) ==
    IF containers = <<>> THEN content
    ELSE LET r == ScanElements(Head(containers), seen, content, base_url,
                               exclude)
         IN  IF r.content # <<>> THEN r.content
             ELSE ScanContainers(Tail(containers), r.seen, r.content,
                                 base_url, exclude)

\* line 512: the set of hashes an extract_content call starts with
SeenAtStart == {}

ErrorUnit == Unit("ERROR", <<"F", "a", "i", "l", "e", "d">>)

\* a call that swallows the exception of the renderer and reports nothing
extract_content_silent(url, content_type, base_url, exclude, raises) ==
    LET clean_base_url == clean_url(url) IN
    IF raises THEN <<>>
    ELSE IF content_type = "document"
    THEN <<Unit("DOCUMENT", clean_base_url)>>
    ELSE IF content_type = "image"
    THEN <<Unit("IMAGE", clean_base_url)>>
    ELSE LET page == PageOf(clean_base_url)
             s == ScanSchema(page.schema, SeenAtStart, <<>>)
         IN  ScanContainers(page.containers, s.seen, s.content, base_url,
                            exclude)
\* lines 495-568: the content list of one call; raises = the renderer raised
extract_content(url, content_type, base_url, exclude, raises) ==
    LET clean_base_url == clean_url(url) IN
    IF raises THEN <<ErrorUnit>>
    ELSE IF content_type = "document"
    THEN <<Unit("DOCUMENT", clean_base_url)>>
    ELSE IF content_type = "image"
    THEN <<Unit("IMAGE", clean_base_url)>>
    ELSE LET page == PageOf(clean_base_url)
             s == ScanSchema(page.schema, SeenAtStart, <<>>)
         IN  ScanContainers(page.containers, s.seen, s.content, base_url,
                            exclude)

\* ------------------------------------------------------------ scrape_pages
\* the orders in which a set can be iterated
Orders(S) ==
    {q \in [1..Cardinality(S) -> S] : \A i, j \in 1..Cardinality(S) :
                                          q[i] = q[j] => i = j}

\* lines 589-594: the kinds in dict order, each set in some iteration order,
\* a URL that is already queued is not queued again
RECURSIVE Queues(_, _)
Queues(map, k) ==
    IF k > Len(Kinds) THEN {<<>>}
    ELSE {[i \in 1..Len(q) |-> <<q[i], Kinds[k]>>] \o rest :
             q \in Orders(map[Kinds[k]]), rest \in Queues(map, k + 1)}

RECURSIVE DropQueued(_, _)
DropQueued(q, queued) ==
    IF q = <<>> THEN <<>>
    ELSE IF clean_url(Head(q)[1]) \in queued THEN DropQueued(Tail(q), queued)
    ELSE <<<<clean_url(Head(q)[1]), Head(q)[2]>>>>
         \o DropQueued(Tail(q), queued \cup {clean_url(Head(q)[1])})

Truncate_uncapped(q, limit) == q

\* lines 596-597
Truncate(q, limit) ==
    IF limit # None /\ limit # 0 THEN SubSeq(q, 1, Min(limit, Len(q))) ELSE q

\* lines 317-323
quit_all(q) == <<>>

\* lines 584-603: report that nothing was discovered and return [] (through
\* the finally of line 640), or build the queue of resources to extract
AfterDiscovery ==
    /\ pc = "discovered"
    /\ IF \A k \in KindSet : content_map[k] = {}
       THEN /\ messages' = messages \cup {"no_content"}
            /\ result' = <<>>
            /\ drivers' = quit_all(drivers)
            /\ pc' = "returned"
            /\ UNCHANGED <<urls_to_process, batch_start, processed_count>>
       ELSE /\ \E q \in Queues(content_map, 1) :
                  urls_to_process' = Truncate(DropQueued(q, {}), max_urls)
            /\ batch_start' = 0
            /\ processed_count' = 0
            /\ pc' = "batch"
            /\ UNCHANGED <<messages, result, drivers>>
    /\ UNCHANGED <<crawlVars, crashed, urlVars, fileVars, recVars, dynamic_limit, content_map, discVars, dynVars, max_urls,
                   exclude_types, taskVars, all_content>>

\* lines 606-620: submit the next batch to the executor
SubmitBatch ==
    /\ pc = "batch"
    /\ batch_start < Len(urls_to_process)
    /\ LET n == Min(batch_start + BatchSize, Len(urls_to_process)) IN
       /\ tstate' = [t \in 1..n |-> IF t <= batch_start THEN tstate[t]
                                    ELSE "queued"]
       /\ tdriver' = [t \in 1..n |-> IF t <= batch_start THEN tdriver[t] ELSE 0]
       /\ tcontent' = [t \in 1..n |-> IF t <= batch_start THEN tcontent[t]
                                      ELSE <<>>]
       /\ traised' = [t \in 1..n |-> IF t <= batch_start THEN traised[t]
                                     ELSE FALSE]
    /\ pc' = "collect"
    /\ UNCHANGED <<crawlVars, crashed, urlVars, fileVars, recVars, dynamic_limit, drivers, content_map, messages, discVars,
                   dynVars, max_urls, exclude_types, urls_to_process,
                   batch_start, processed_count, all_content, result>>

Tasks == 1..Len(tstate)
Running(t) == tstate[t] \in {"get", "use", "finally"}

\* ThreadPoolExecutor(max_workers=3): a free worker thread takes the oldest
\* queued task and enters extract_content
WorkerStart(t) ==
    /\ tstate[t] = "queued"
    /\ \A u \in Tasks : u < t => tstate[u] # "queued"
    /\ Cardinality({u \in Tasks : Running(u)}) < MaxWorkers
    /\ tstate' = [tstate EXCEPT ![t] = "get"]
    /\ UNCHANGED <<crawlVars, crashed, urlVars, fileVars, recVars, dynamic_limit, pc, drivers, content_map, messages, discVars,
                   dynVars, max_urls, exclude_types, urls_to_process,
                   batch_start, tdriver, tcontent, traised, processed_count,
                   all_content, result>>

\* line 496
WorkerGetDriver(t) ==
    /\ tstate[t] = "get"
    /\ CanGetDriver(drivers)
    /\ tdriver' = [tdriver EXCEPT ![t] = get_driver(drivers).driver]
    /\ drivers' = get_driver(drivers).drivers
    /\ tstate' = [tstate EXCEPT ![t] = "use"]
    /\ UNCHANGED <<crawlVars, crashed, urlVars, fileVars, recVars, dynamic_limit, pc, content_map, messages, discVars, dynVars,
                   max_urls, exclude_types, urls_to_process, batch_start,
                   tcontent, traised, processed_count, all_content, result>>

\* a worker that records its URL in the visited set itself
WorkerExtractRecording(t) ==
    /\ tstate[t] = "use"
    /\ \E raises \in (IF tdriver[t] \in crashed THEN {TRUE} ELSE BOOLEAN) :
          /\ tcontent' = [tcontent EXCEPT ![t] =
                            extract_content(urls_to_process[t][1],
                                            urls_to_process[t][2], BaseUrl,
                                            exclude_types, raises)]
          /\ traised' = [traised EXCEPT ![t] = raises]
    /\ tstate' = [tstate EXCEPT ![t] = "finally"]
    /\ processed_urls' = processed_urls \cup {urls_to_process[t][1]}
    /\ UNCHANGED <<crawlVars, crashed, urlVars, fileVars, recVars, dynamic_limit, pc, drivers, content_map, messages,
                   to_process, pending, clean_result_url, dequeued, failed,
                   dynVars, max_urls, exclude_types, urls_to_process,
                   batch_start, tdriver, processed_count, all_content, result>>

\* lines 499-568: the body, with or without an exception of the renderer;
\* every call on a session whose browser has crashed raises
WorkerExtract(t) ==
    /\ tstate[t] = "use"
    /\ \E raises \in (IF tdriver[t] \in crashed THEN {TRUE} ELSE BOOLEAN) :
          /\ tcontent' = [tcontent EXCEPT ![t] =
                            extract_content(urls_to_process[t][1],
                                            urls_to_process[t][2], BaseUrl,
                                            exclude_types, raises)]
          /\ traised' = [traised EXCEPT ![t] = raises]
    /\ tstate' = [tstate EXCEPT ![t] = "finally"]
    /\ UNCHANGED <<crawlVars, crashed, urlVars, fileVars, recVars, dynamic_limit, pc, drivers, content_map, messages, discVars,
                   dynVars, max_urls, exclude_types, urls_to_process,
                   batch_start, tdriver, processed_count, all_content, result>>

\* a worker that ends its call without returning the session
WorkerKeepDriver(t) ==
    /\ tstate[t] = "finally"
    /\ tdriver' = [tdriver EXCEPT ![t] = 0]
    /\ tstate' = [tstate EXCEPT ![t] = "done"]
    /\ UNCHANGED <<crawlVars, crashed, urlVars, fileVars, recVars, dynamic_limit, pc,
                   drivers, content_map, messages, discVars, dynVars,
                   max_urls, exclude_types, urls_to_process, batch_start,
                   tcontent, traised, processed_count, all_content, result>>

\* lines 569-572
WorkerReturnDriver(t) ==
    /\ tstate[t] = "finally"
    /\ drivers' = return_driver(drivers, tdriver[t])
    /\ tdriver' = [tdriver EXCEPT ![t] = 0]
    /\ tstate' = [tstate EXCEPT ![t] = "done"]
    /\ UNCHANGED <<crawlVars, crashed, urlVars, fileVars, recVars, dynamic_limit, pc, content_map, messages, discVars, dynVars,
                   max_urls, exclude_types, urls_to_process, batch_start,
                   tcontent, traised, processed_count, all_content, result>>

\* line 629: the URL the main thread writes above a result
MarkerUrl(q, count) == q[count][1]

\* an aggregate that takes the marker after the first unit of the result
extend_split(all, url, content) ==
    all \o <<Head(content), Unit("URL", url)>> \o Tail(content)
\* lines 630-631: the marker of a result, then its units
extend(all, url, content) == all \o <<Unit("URL", url)>> \o content

\* lines 622-633: the main thread consumes one finished future
Collect(t) ==
    /\ pc = "collect"
    /\ tstate[t] = "done"
    /\ tstate' = [tstate EXCEPT ![t] = "collected"]
    /\ processed_count' = processed_count + 1
    /\ all_content' =
          IF tcontent[t] # <<>>
          THEN extend(all_content,
                      MarkerUrl(urls_to_process, processed_count + 1),
                      tcontent[t])
          ELSE all_content
    /\ UNCHANGED <<crawlVars, crashed, urlVars, fileVars, recVars, dynamic_limit, pc, drivers, content_map, messages, discVars,
                   dynVars, max_urls, exclude_types, urls_to_process,
                   batch_start, tdriver, tcontent, traised, result>>

\* line 638: every future of the batch was consumed
BatchDone ==
    /\ pc = "collect"
    /\ \A t \in Tasks : tstate[t] = "collected"
    /\ batch_start' = batch_start + BatchSize
    /\ pc' = "batch"
    /\ UNCHANGED <<crawlVars, crashed, urlVars, fileVars, recVars, dynamic_limit, drivers, content_map, messages, discVars,
                   dynVars, max_urls, exclude_types, urls_to_process, taskVars,
                   processed_count, all_content, result>>

\* lines 640-644: the batches are over, finally quit_all, return
ExtractionDone ==
    /\ pc = "batch"
    /\ batch_start >= Len(urls_to_process)
    /\ drivers' = quit_all(drivers)
    /\ result' = all_content
    /\ pc' = "returned"
    /\ UNCHANGED <<crawlVars, crashed, urlVars, fileVars, recVars, dynamic_limit, content_map, messages, discVars, dynVars,
                   max_urls, exclude_types, urls_to_process, batch_start,
                   taskVars, processed_count, all_content>>

\* lines 640-641 on the exception path: finally quit_all, the exception goes
\* on to the caller
RaisedExit ==
    /\ pc = "raised"
    /\ drivers' = quit_all(drivers)
    /\ pc' = "propagated"
    /\ UNCHANGED <<crawlVars, crashed, urlVars, fileVars, recVars, dynamic_limit, content_map, messages, discVars, dynVars,
                   extVars>>

\* lines 171-173 of seo_scraper: a keyword occurs in the line, tag included.
\* The texts of the modelled pages hold none; "[ARTICLEBODY]" holds
\* "article", and a URL holds one in its path segment
is_blog_post(line) ==
    \/ line.tag = "ARTICLEBODY"
    \/ \E segment \in {"/blog/", "/post/", "/article/", "/news/"} :
          Contains(line.text, segment)

\* the indices of content that the loop of lines 688-691 writes
Kept(content, blog_posts) ==
    {i \in 1..Len(content) : ~(blog_posts /\ is_blog_post(content[i]))}

\* the k-th smallest element of a set of numbers
RECURSIVE Nth(_, _)
Nth(set, k) ==
    LET least == CHOOSE i \in set : \A j \in set : i <= j IN
    IF k = 1 THEN least ELSE Nth(set \ {least}, k - 1)

\* lines 685-691 of main: the returned content is written line by line;
\* blog_posts = 'blog posts' is among the excluded types
WriteFile ==
    /\ pc = "returned" /\ result # <<>>
    /\ \E blog_posts \in BOOLEAN :
          LET kept == Kept(result, blog_posts) IN
          /\ written_from' = [k \in 1..Cardinality(kept) |-> Nth(kept, k)]
          /\ artifact' = [k \in 1..Cardinality(kept) |-> result[Nth(kept, k)]]
    /\ pc' = "written"
    /\ UNCHANGED <<crawlVars, crashed, urlVars, recVars, dynamic_limit, drivers,
                   content_map, messages, discVars, dynVars, extVars>>

Next ==
    \/ WriteFile
    \/ StaticTakeBatch \/ StaticResult \/ StaticDone
    \/ DynamicStart \/ DynamicSkipped \/ DynamicNavigate
    \/ DynamicScroll \/ DynamicTrigger \/ DynamicHeight \/ DynamicFinally
    \/ UnlimitedStart \/ UnlimitedNavigate \/ UnlimitedLoop \/ UnlimitedBody
    \/ UnlimitedFinally
    \/ CleanContentMap
    \/ AfterDiscovery \/ SubmitBatch
    \/ \E t \in Tasks : \/ WorkerStart(t) \/ WorkerGetDriver(t)
                        \/ WorkerExtract(t) \/ WorkerReturnDriver(t)
                        \/ Collect(t)
    \/ BatchDone \/ ExtractionDone \/ RaisedExit

Spec == Init /\ [][Next]_vars

\* every thread that can take a step is eventually scheduled
FairSpec == Spec /\ WF_vars(Next)

\* ------------------------------------ scrape_pages from the pool's creation
\* line 577 and lines 304-309: DriverPool(size=3) creates the sessions one by
\* one; webdriver.Chrome may raise, after n sessions have been created. The
\* call stands before the try of line 579, so the exception leaves
\* scrape_pages at once, and the sessions created so far stay in the queue of
\* the half-built pool
CreatePool ==
    /\ pc = "create"
    /\ \E n \in 0..PoolSize :
          /\ drivers' = [i \in 1..n |-> i]
          /\ pc' = IF n = PoolSize THEN "static" ELSE "propagated"
    /\ UNCHANGED <<crawlVars, crashed, urlVars, fileVars, recVars, extVars, dynamic_limit, content_map,
                   messages, discVars, dynVars>>

\* the browser of the session that task t is using crashes during the use
SessionCrash(t) ==
    /\ tstate[t] = "use"
    /\ tdriver[t] \notin crashed
    /\ crashed' = crashed \cup {tdriver[t]}
    /\ UNCHANGED <<crawlVars, urlVars, fileVars, recVars, extVars, dynamic_limit, pc, drivers, content_map,
                   messages, discVars, dynVars>>

\* scrape_pages is entered, the pool does not exist yet
PoolInit ==
    /\ pc = "create"
    /\ drivers = <<>>
    /\ dynamic_limit \in {None} \cup 0..MaxLimit
    /\ max_urls \in {None} \cup 1..MaxUrls
    /\ exclude_types \in ExcludeChoices
    /\ content_map = EmptyMap
    /\ processed_urls = {} /\ to_process = {clean_url(BaseUrl)}
    /\ pending = {} /\ clean_result_url = Unbound
    /\ dequeued = {} /\ failed = {}
    /\ messages = {} /\ driver = 0
    /\ scroll_count = 0 /\ last_height = 0 /\ content_hash = 0
    /\ dynamic_attempts = 0 /\ trigger = 0 /\ revealed = FALSE /\ quiet = 0
    /\ urls_to_process = <<>> /\ batch_start = 0
    /\ tstate = <<>> /\ tdriver = <<>> /\ tcontent = <<>> /\ traised = <<>>
    /\ processed_count = 0 /\ all_content = <<>> /\ result = Unbound
    /\ crashed = {}
    /\ CrawlIdle
    /\ UrlIdle
    /\ artifact = <<>> /\ written_from = <<>>
    /\ RecIdle

PoolNext ==
    \/ CreatePool
    \/ Next
    \/ \E t \in Tasks : SessionCrash(t)

PoolSpec == PoolInit /\ [][PoolNext]_vars

\* ------------------------------- advanced_web_scraperv3.py: adaptive_crawl
\* line 300: the depths the user can enter, up to the bound
MaxDepth == 1
\* line 274
CollectThreshold == 5

UrlPost == <<"B", "/post/", "/about-us">>

\* the variables that only seo_scraper's scrape_pages uses
seoVars == <<dynamic_limit, drivers, content_map, discVars, scroll_count,
             last_height, content_hash, dynamic_attempts, trigger, revealed,
             quiet, urls_to_process, batch_start, taskVars, processed_count,
             crashed>>

\* their values while scrape_pages of seo_scraper does not run
SeoIdle ==
    /\ dynamic_limit = None
    /\ drivers = <<>>
    /\ content_map = EmptyMap
    /\ processed_urls = {} /\ to_process = {} /\ pending = {}
    /\ clean_result_url = Unbound
    /\ dequeued = {} /\ failed = {}
    /\ scroll_count = 0 /\ last_height = 0 /\ content_hash = 0
    /\ dynamic_attempts = 0 /\ trigger = 0 /\ revealed = FALSE /\ quiet = 0
    /\ urls_to_process = <<>> /\ batch_start = 0
    /\ tstate = <<>> /\ tdriver = <<>> /\ tcontent = <<>> /\ traised = <<>>
    /\ processed_count = 0
    /\ crashed = {}

\* lines 323-329: the list main builds from the three checkboxes
Strategies(use_pagination, use_infinite_scroll, use_load_more) ==
    (IF use_pagination THEN <<"PaginationStrategy">> ELSE <<>>)
    \o (IF use_infinite_scroll THEN <<"InfiniteScrollStrategy">> ELSE <<>>)
    \o (IF use_load_more THEN <<"LoadMoreButtonStrategy">> ELSE <<>>)

\* what the start page can offer: pagination controls (none; numbered buttons
\* whose active page is the last one; numbered buttons with an enabled next
\* page; an enabled "a.next" arrow without numbered buttons), a load-more
\* control matched by one of the first three selectors (none, not displayed,
\* displayed), a document that grows on scrolling
Pages ==
    [pagination : {"none", "last", "next", "arrow"},
     load_more : {"none", "hidden", "shown"},
     grows : BOOLEAN]

\* lines 61-71, 102-104, 116-127. "button:contains('Load More')" is not a
\* CSS selector: find_elements raises on it, which the load-more strategy
\* reaches when none of its first three selectors matches; raises = a
\* find_elements call on the session raised (the scroll strategy makes none)
is_applicable(strategy, pg, raises) ==
    IF strategy = "PaginationStrategy"
    THEN IF raises THEN "raises"
         ELSE IF pg.pagination # "none" THEN "yes" ELSE "no"
    ELSE IF strategy = "InfiniteScrollStrategy" THEN "yes"
    ELSE IF raises THEN "raises"
    ELSE IF pg.load_more # "none" THEN "yes" ELSE "raises"

\* lines 147-171: the links of the rendered page that gather_page_content
\* keeps
gather_page_content(anchors, base_url) ==
    {l \in anchors :
        /\ is_valid_url(l) /\ startswith(l, base_url)
        /\ \E pattern \in {"/article/", "/blog/", "/post/", "/news/"} :
              Contains(l, pattern)}

\* the anchors of the start page after a strategy has loaded more of it
LoadedAnchors(strategy) ==
    IF strategy = "PaginationStrategy" THEN RenderedAnchors(2)
    ELSE RenderedAnchors(2) \cup {UrlPost}

\* lines 73-99, 106-113, 129-145: execute; raises = a driver call raised.
\* Pagination clicks only a numbered button that follows the active one
\* (lines 84-98) and returns [] for every other control
execute(strategy, pg, base_url, raises) ==
    LET gathered == [raises |-> FALSE,
                     links |-> gather_page_content(LoadedAnchors(strategy),
                                                   base_url)]
        nothing == [raises |-> FALSE, links |-> {}]
        raised == [raises |-> TRUE, links |-> {}]
    IN  IF raises THEN raised
        ELSE IF strategy = "PaginationStrategy"
        THEN IF pg.pagination = "next" THEN gathered ELSE nothing
        ELSE IF strategy = "InfiniteScrollStrategy"
        THEN IF pg.grows THEN gathered ELSE nothing
        ELSE IF pg.load_more = "shown" THEN gathered ELSE raised

\* lines 190-231: the content list of the advanced scraper, over the elements
\* of the main content
RECURSIVE ScanPlain(_, _, _)
ScanPlain(elems, base_url, exclude) ==
    IF elems = <<>> THEN <<>>
    ELSE LET e == Head(elems)
             text == clean_text(e.text)
             rest == ScanPlain(Tail(elems), base_url, exclude)
         IN
         IF e.excluded THEN rest
         ELSE IF e.name \in TextTags
         THEN IF "text" \notin exclude /\ text # <<>> /\ Len(text) > MinTextLen
              THEN <<Unit(e.name, text)>> \o rest
              ELSE rest
         ELSE IF e.name = "A" /\ "links" \notin exclude /\ e.href # <<>>
         THEN IF is_valid_url(e.href)
              THEN <<Unit("EXTERNAL LINK", e.href)>> \o rest
              ELSE <<Unit("INTERNAL LINK", urljoin(base_url, e.href))>> \o rest
         ELSE rest

\* lines 233-241
scrape_single_page(url, base_url, exclude) ==
    ScanPlain(PageOf(url).containers[1], base_url, exclude)

\* line 292: list.sort(key=depth), a stable sort
RECURSIVE SortByDepth(_, _)
SortByDepth(q, d) ==
    IF q = <<>> THEN <<>>
    ELSE SelectSeq(q, LAMBDA e : e[2] = d)
         \o SortByDepth(SelectSeq(q, LAMBDA e : e[2] # d), d + 1)

Future(url) == [url |-> url, state |-> "running", content |-> <<>>,
                consumed |-> FALSE]
Finished(f) == futures[f].state # "running"

\* lines 296-329: the user's input and the session of line 245
CrawlInit ==
    /\ pc = "a_get"
    /\ \E a, b, c \in BOOLEAN : strategies = Strategies(a, b, c)
    /\ start_page \in Pages
    /\ max_depth \in 0..MaxDepth
    /\ max_urls \in {None} \cup 1..MaxUrls
    /\ exclude_types \in ExcludeChoices
    /\ driver = 1
    /\ messages = {} /\ all_content = <<>> /\ result = Unbound
    /\ strategy_i = 0 /\ all_links = <<>> /\ strategy_results = <<>>
    /\ executed = <<>> /\ to_visit = <<>> /\ visited = {} /\ futures = <<>>
    /\ future_to_url = {} /\ depth = 0
    /\ SeoIdle
    /\ UrlIdle
    /\ artifact = <<>> /\ written_from = <<>>
    /\ RecIdle

\* lines 251-254: the except clause of adaptive_crawl
Fallback ==
    /\ all_links' = <<BaseUrl>>
    /\ strategy_results' = <<"Fallback">>
    /\ messages' = messages \cup {"warning"}
    /\ pc' = "a_quit"

\* lines 248-250: navigate to the start page, enter load_more_content
CrawlGet ==
    /\ pc = "a_get"
    /\ \/ /\ strategy_i' = 1
          /\ pc' = "a_load"
          /\ UNCHANGED <<all_links, strategy_results, messages>>
       \/ /\ Fallback
          /\ UNCHANGED strategy_i
    /\ UNCHANGED <<seoVars, urlVars, fileVars, recVars, strategies, start_page, executed, to_visit, visited,
                   futures, future_to_url, depth, max_depth, driver, max_urls,
                   exclude_types, all_content, result>>

\* lines 177-186: one iteration of the for loop over the strategies
LoadStrategy ==
    /\ pc = "a_load" /\ strategy_i <= Len(strategies)
    /\ \E broken \in BOOLEAN :
       LET strategy == strategies[strategy_i]
           applicable == is_applicable(strategy, start_page, broken)
       IN
       IF applicable = "raises"
       THEN /\ Fallback
            /\ UNCHANGED <<strategy_i, executed>>
       ELSE IF applicable = "no"
       THEN /\ strategy_i' = strategy_i + 1
            /\ UNCHANGED <<all_links, strategy_results, messages, pc, executed>>
       ELSE /\ executed' = Append(executed, strategy)
            /\ \E raises \in BOOLEAN :
                 LET new_links == execute(strategy, start_page, BaseUrl, raises)
                 IN
                 IF new_links.raises
                 THEN /\ strategy_results' =
                           Append(strategy_results, <<strategy, "Failed">>)
                      /\ strategy_i' = strategy_i + 1
                      /\ UNCHANGED all_links
                 ELSE IF new_links.links # {}
                 THEN /\ \E order \in Orders(new_links.links) :
                            all_links' = order
                      /\ strategy_results' =
                           Append(strategy_results, <<strategy, "Success">>)
                      /\ strategy_i' = Len(strategies) + 1
                 ELSE /\ strategy_i' = strategy_i + 1
                      /\ UNCHANGED <<all_links, strategy_results>>
            /\ UNCHANGED <<messages, pc>>
    /\ UNCHANGED <<seoVars, urlVars, fileVars, recVars, strategies, start_page, to_visit, visited, futures,
                   future_to_url, depth, max_depth, driver, max_urls,
                   exclude_types, all_content, result>>

\* lines 188, 250: the loop is over, load_more_content returns
LoadReturn ==
    /\ pc = "a_load" /\ strategy_i > Len(strategies)
    /\ pc' = "a_quit"
    /\ UNCHANGED <<seoVars, urlVars, fileVars, recVars, crawlVars, driver, max_urls, exclude_types,
                   messages, all_content, result>>

\* lines 255-263: quit the session, report, build the frontier; the page and
\* the locals of load_more_content are gone, strategies is read no more
CrawlQuit ==
    /\ pc = "a_quit"
    /\ driver' = 0
    /\ start_page' = NoPage
    /\ messages' = IF strategy_results # <<>> THEN messages \cup {"info"}
                   ELSE messages
    /\ to_visit' = [i \in 1..Len(all_links) |-> <<all_links[i], 0>>]
    /\ visited' = {}
    /\ all_content' = <<>>
    /\ strategies' = <<>> /\ strategy_i' = 0 /\ strategy_results' = <<>>
    /\ executed' = <<>> /\ all_links' = <<>>
    /\ pc' = "a_loop"
    /\ UNCHANGED <<seoVars, urlVars, fileVars, recVars, futures, future_to_url, depth, max_depth, max_urls,
                   exclude_types, result>>

\* lines 268-274, 292: the loop test and, up to the collection, one iteration.
\* With max_urls = None the test compares an int with None and raises
\* TypeError once to_visit is not empty
CrawlLoop ==
    /\ pc = "a_loop"
    /\ IF to_visit = <<>>
       THEN /\ pc' = "a_exit"
            /\ UNCHANGED <<to_visit, visited, futures, future_to_url, depth>>
       ELSE IF max_urls = None
       THEN /\ pc' = "a_raise"
            /\ UNCHANGED <<to_visit, visited, futures, future_to_url, depth>>
       ELSE IF ~(Cardinality(visited) < max_urls)
       THEN /\ pc' = "a_exit"
            /\ UNCHANGED <<to_visit, visited, futures, future_to_url, depth>>
       ELSE LET url == Head(to_visit)[1]
                rest == Tail(to_visit)
            IN
            /\ depth' = Head(to_visit)[2]
            /\ IF url \notin visited /\ depth' <= max_depth
               THEN /\ visited' = visited \cup {url}
                    /\ futures' = Append(futures, Future(url))
                    /\ future_to_url' = future_to_url \cup {Len(futures) + 1}
                    /\ IF \/ Cardinality(future_to_url') >= CollectThreshold
                          \/ rest = <<>>
                       THEN pc' = "a_collect" /\ to_visit' = rest
                       ELSE pc' = "a_loop" /\ to_visit' = SortByDepth(rest, 0)
               ELSE /\ to_visit' = SortByDepth(rest, 0)
                    /\ UNCHANGED <<visited, futures, future_to_url, pc>>
    /\ UNCHANGED <<seoVars, urlVars, fileVars, recVars, strategies, start_page, strategy_i, all_links,
                   strategy_results, executed, max_depth, driver, max_urls,
                   exclude_types, messages, all_content, result>>

\* lines 233-241: a worker thread runs scrape_single_page to its end
FutureRun(f) ==
    /\ pc \in {"a_loop", "a_collect", "a_exit", "a_raise"}
    /\ futures[f].state = "running"
    /\ \E ok \in BOOLEAN :
          futures' = [futures EXCEPT ![f] =
              IF ok THEN [@ EXCEPT !.state = "ok",
                                   !.content = scrape_single_page(
                                       futures[f].url, BaseUrl,
                                       exclude_types)]
              ELSE [@ EXCEPT !.state = "failed"]]
    /\ UNCHANGED <<seoVars, urlVars, fileVars, recVars, strategies, start_page, strategy_i, all_links,
                   strategy_results, executed, to_visit, visited,
                   future_to_url, depth, max_depth, driver, max_urls,
                   exclude_types, messages, all_content, result, pc>>

\* lines 275-287: as_completed yields a finished future. For depth <
\* max_depth line 284 calls gather_page_content on the session that line 256
\* has quit: it raises, line 286 catches, to_visit is not extended
CrawlCollect(f) ==
    /\ pc = "a_collect"
    /\ f \in future_to_url /\ Finished(f) /\ ~futures[f].consumed
    /\ futures' = [futures EXCEPT ![f].consumed = TRUE]
    /\ IF futures[f].state = "ok"
       THEN /\ all_content' = all_content \o <<Unit("URL", futures[f].url)>>
                                \o futures[f].content
            /\ messages' = IF depth < max_depth THEN messages \cup {"error"}
                           ELSE messages
       ELSE /\ messages' = messages \cup {"error"}
            /\ UNCHANGED all_content
    /\ UNCHANGED <<seoVars, urlVars, fileVars, recVars, strategies, start_page, strategy_i, all_links,
                   strategy_results, executed, to_visit, visited,
                   future_to_url, depth, max_depth, driver, max_urls,
                   exclude_types, result, pc>>

\* lines 289, 292: every future of the dict was consumed
CrawlCollected ==
    /\ pc = "a_collect"
    /\ \A f \in future_to_url : futures[f].consumed
    /\ future_to_url' = {}
    /\ to_visit' = SortByDepth(to_visit, 0)
    /\ pc' = "a_loop"
    /\ UNCHANGED <<seoVars, urlVars, fileVars, recVars, strategies, start_page, strategy_i, all_links,
                   strategy_results, executed, visited, futures, depth,
                   max_depth, driver, max_urls, exclude_types, messages,
                   all_content, result>>

\* lines 265, 294: the with block ends (shutdown waits for the running
\* tasks), adaptive_crawl returns all_content
CrawlExit ==
    /\ pc = "a_exit"
    /\ \A f \in 1..Len(futures) : Finished(f)
    /\ result' = all_content
    /\ pc' = "a_returned"
    /\ UNCHANGED <<seoVars, urlVars, fileVars, recVars, crawlVars, driver, max_urls, exclude_types,
                   messages, all_content>>

\* line 265 on the exception path, lines 359-360: the with block ends, the
\* exception leaves adaptive_crawl and main reports it
CrawlRaiseExit ==
    /\ pc = "a_raise"
    /\ \A f \in 1..Len(futures) : Finished(f)
    /\ messages' = messages \cup {"error_during_scraping"}
    /\ pc' = "a_propagated"
    /\ UNCHANGED <<seoVars, urlVars, fileVars, recVars, crawlVars, driver, max_urls, exclude_types,
                   all_content, result>>

CrawlNext ==
    \/ CrawlGet \/ LoadStrategy \/ LoadReturn \/ CrawlQuit \/ CrawlLoop
    \/ \E f \in 1..Len(futures) : FutureRun(f) \/ CrawlCollect(f)
    \/ CrawlCollected \/ CrawlExit \/ CrawlRaiseExit

CrawlSpec == CrawlInit /\ [][CrawlNext]_vars

\* ------------------------------------------ selenium_tool.py: scrape_pages
\* lines 71-77
tool_is_unwanted_link(url, base_url) ==
    LET patterns == {"/cookie-policy", "/privacy-policy",
                     "/terms-and-conditions", "/about-us", "/contact",
                     "/careers", "/sitemap"}
        is_external == ~startswith(url, base_url)
    IN  (\E pattern \in patterns : Contains(url, pattern)) \/ is_external

\* lines 125-209: the links load_more_content has gathered (lines 98-123 are
\* gather_page_content again) when the page stopped at the given version
ToolLinks(version) ==
    UNION {gather_page_content(
               IF v >= 2 THEN RenderedAnchors(v) \cup {UrlPost}
               ELSE RenderedAnchors(v), BaseUrl) : v \in 1..version}

\* lines 211-253, 255-264: the content list of selenium_tool's
\* scrape_single_page, over every element of the document
RECURSIVE Flatten(_)
Flatten(containers) ==
    IF containers = <<>> THEN <<>>
    ELSE Head(containers) \o Flatten(Tail(containers))

tool_scrape_single_page(url, base_url, exclude) ==
    ScanPlain(Flatten(PageOf(url).containers), base_url, exclude)

\* lines 282-286: the for loop over all_links
RECURSIVE SubmitAll(_, _, _, _, _)
SubmitAll(links, vis, futs, limit, base_url) ==
    IF links = <<>> THEN [visited |-> vis, futures |-> futs]
    ELSE LET url == Head(links) IN
         IF /\ limit = None \/ Cardinality(vis) < limit
            /\ url \notin vis /\ ~tool_is_unwanted_link(url, base_url)
         THEN SubmitAll(Tail(links), vis \cup {url}, Append(futs, Future(url)),
                        limit, base_url)
         ELSE SubmitAll(Tail(links), vis, futs, limit, base_url)

\* lines 301-326: the user's input, and the session of line 271
ToolInit ==
    /\ pc = "t_get"
    /\ max_urls \in {None} \cup 1..MaxUrls
    /\ exclude_types \in ExcludeChoices
    /\ driver = 1
    /\ messages = {} /\ all_content = <<>> /\ result = Unbound
    /\ CrawlIdle
    /\ UrlIdle
    /\ artifact = <<>> /\ written_from = <<>>
    /\ RecIdle
    /\ SeoIdle

\* lines 272-278: navigate and load the links, quit the session on every
\* path; an exception leaves scrape_pages
ToolLoad ==
    /\ pc = "t_get"
    /\ driver' = 0
    /\ \/ /\ \E version \in 1..MaxVersion :
               \E order \in Orders(ToolLinks(version)) : all_links' = order
          /\ pc' = "t_submit"
       \/ /\ pc' = "t_propagated"
          /\ UNCHANGED all_links
    /\ UNCHANGED <<seoVars, urlVars, fileVars, recVars, strategies, start_page, strategy_i,
                   strategy_results, executed, to_visit, visited, futures,
                   future_to_url, depth, max_depth, max_urls, exclude_types,
                   messages, all_content, result>>

\* lines 280-286: submit a task for every link the cap and the filter let
\* through
ToolSubmit ==
    /\ pc = "t_submit"
    /\ LET r == SubmitAll(all_links, visited, futures, max_urls, BaseUrl) IN
       /\ visited' = r.visited
       /\ futures' = r.futures
       /\ future_to_url' = 1..Len(r.futures)
    /\ pc' = "t_collect"
    /\ UNCHANGED <<seoVars, urlVars, fileVars, recVars, strategies, start_page, strategy_i, all_links,
                   strategy_results, executed, to_visit, depth, max_depth,
                   driver, max_urls, exclude_types, messages, all_content,
                   result>>

\* lines 255-264: a worker thread runs scrape_single_page to its end
ToolFutureRun(f) ==
    /\ pc = "t_collect"
    /\ futures[f].state = "running"
    /\ \E ok \in BOOLEAN :
          futures' = [futures EXCEPT ![f] =
              IF ok THEN [@ EXCEPT !.state = "ok",
                                   !.content = tool_scrape_single_page(
                                       futures[f].url, BaseUrl,
                                       exclude_types)]
              ELSE [@ EXCEPT !.state = "failed"]]
    /\ UNCHANGED <<seoVars, urlVars, fileVars, recVars, strategies, start_page, strategy_i, all_links,
                   strategy_results, executed, to_visit, visited,
                   future_to_url, depth, max_depth, driver, max_urls,
                   exclude_types, messages, all_content, result, pc>>

\* lines 288-297: as_completed yields a finished future
ToolCollect(f) ==
    /\ pc = "t_collect"
    /\ f \in future_to_url /\ Finished(f) /\ ~futures[f].consumed
    /\ futures' = [futures EXCEPT ![f].consumed = TRUE]
    /\ IF futures[f].state = "ok"
       THEN /\ all_content' = all_content \o <<Unit("URL", futures[f].url)>>
                                \o futures[f].content
            /\ UNCHANGED messages
       ELSE /\ messages' = messages \cup {"error"}
            /\ UNCHANGED all_content
    /\ UNCHANGED <<seoVars, urlVars, fileVars, recVars, strategies, start_page, strategy_i, all_links,
                   strategy_results, executed, to_visit, visited,
                   future_to_url, depth, max_depth, driver, max_urls,
                   exclude_types, result, pc>>

\* line 299
ToolReturn ==
    /\ pc = "t_collect"
    /\ \A f \in future_to_url : futures[f].consumed
    /\ result' = all_content
    /\ pc' = "t_returned"
    /\ UNCHANGED <<seoVars, urlVars, fileVars, recVars, crawlVars, driver, max_urls, exclude_types,
                   messages, all_content>>

ToolNext ==
    \/ ToolLoad \/ ToolSubmit
    \/ \E f \in 1..Len(futures) : ToolFutureRun(f) \/ ToolCollect(f)
    \/ ToolReturn

ToolSpec == ToolInit /\ [][ToolNext]_vars

\* ------------------------------------------------ the three scrapers at once
\* a run is a run of one of the three concurrent scrapers
AllInit == Init \/ CrawlInit \/ ToolInit
AllNext == Next \/ CrawlNext \/ ToolNext
AllSpec == AllInit /\ [][AllNext]_vars

\* ------------------------------------------ the extraction phase on its own
\* scrape_pages at line 584, discover_site_content has returned the map of
\* the whole site (static and dynamic harvest), with no limit on the URLs
ExtractInit ==
    /\ pc = "discovered"
    /\ drivers = <<2, 3, 1>>   \* dynamic harvest took session 1 and returned it
    /\ content_map = [EmptyMap EXCEPT !["page"] = {BaseUrl, UrlLogin},
                                      !["article"] = {UrlBlog, UrlNews}]
    /\ dynamic_limit = None
    /\ max_urls = None
    /\ exclude_types = {}
    /\ processed_urls = {} /\ to_process = {}
    /\ pending = {} /\ clean_result_url = Unbound
    /\ dequeued = {} /\ failed = {}
    /\ messages = {} /\ driver = 0
    /\ scroll_count = 0 /\ last_height = 0 /\ content_hash = 0
    /\ dynamic_attempts = 0 /\ trigger = 0 /\ revealed = FALSE /\ quiet = 0
    /\ urls_to_process = <<>> /\ batch_start = 0
    /\ tstate = <<>> /\ tdriver = <<>> /\ tcontent = <<>> /\ traised = <<>>
    /\ processed_count = 0 /\ all_content = <<>> /\ result = Unbound
    /\ crashed = {}
    /\ CrawlIdle
    /\ UrlIdle
    /\ artifact = <<>> /\ written_from = <<>>
    /\ RecIdle

\* lines 584-644 and the write loop of main
ExtractNext ==
    \/ AfterDiscovery \/ SubmitBatch
    \/ \E t \in Tasks : \/ WorkerStart(t) \/ WorkerGetDriver(t)
                        \/ WorkerExtract(t) \/ WorkerReturnDriver(t)
                        \/ Collect(t)
    \/ BatchDone \/ ExtractionDone \/ WriteFile

\* a worker thread that can enter its call, take a session out of a queue
\* that is not empty, or return its session is eventually scheduled; nothing
\* is assumed about the calls of the renderer
ExtractSpec ==
    /\ ExtractInit
    /\ [][ExtractNext]_vars
    /\ WF_vars(\E t \in Tasks : \/ WorkerStart(t) \/ WorkerGetDriver(t)
                                \/ WorkerReturnDriver(t))

\* ------------------------------------- the URL helpers on arbitrary input
\* largest number of is_unwanted_link calls followed
MaxCalls == 3

\* an argument that is not a string (None)
NotAString == <<"None">>

\* URLs a page can link to: with and without a fragment, with and without a
\* trailing slash, unwanted, external
UrlInputs ==
    {BaseUrl, UrlBlog, UrlBlog \o <<"/">>, UrlBlog \o <<"#", "c1">>,
     <<"B", "/p">>, <<"B", "/p", "#", "x">>, <<"B", "/p", "/">>, UrlLogin,
     UrlExt}

\* lines 201-233, with the function attribute as an explicit argument and
\* result: the answer, whether the call raised, the attribute afterwards.
\* `'#' in url` raises TypeError on None and the bare except answers True
is_unwanted_link_call(url, base_url, attr) ==
    IF url = NotAString
    THEN [answer |-> TRUE, raised |-> FALSE, attr |-> attr]
    ELSE IF Contains(url, "#") /\ BeforeHash(url) \in attr
    THEN [answer |-> TRUE, raised |-> FALSE, attr |-> attr]
    ELSE LET is_external == ~startswith(url, base_url)
             is_unwanted == \E p \in unwanted_patterns : Contains(url, p)
         IN  [answer |-> is_external \/ is_unwanted,
              raised |-> FALSE,
              attr |-> IF ~is_external /\ ~is_unwanted /\ Contains(url, "#")
                       THEN attr \cup {BeforeHash(url)}
                       ELSE attr]

\* a page with at most two links is about to be harvested
UrlInit ==
    /\ pc = "u_links"
    /\ page_anchors \in {S \in SUBSET UrlInputs : Cardinality(S) \in 1..2}
    /\ found_links = {}
    /\ calls = <<>>
    /\ processed_base_urls = {}
    /\ artifact = <<>> /\ written_from = <<>>
    /\ RecIdle
    /\ max_urls = None /\ exclude_types = {} /\ driver = 0
    /\ messages = {} /\ all_content = <<>> /\ result = Unbound
    /\ SeoIdle
    /\ CrawlIdle

\* lines 260-283: find_all_links on the page
FindLinks ==
    /\ pc = "u_links"
    /\ found_links' = find_all_links(page_anchors, BaseUrl)
    /\ pc' = "u_scope"
    /\ UNCHANGED <<seoVars, crawlVars, fileVars, recVars, processed_base_urls,
                   page_anchors, calls, driver, max_urls, exclude_types, messages,
                   all_content, result>>

\* line 365: one call of is_unwanted_link, on a link of the page, raw or
\* cleaned, or on a value that is not a string
ScopeCall ==
    /\ pc = "u_scope" /\ Len(calls) < MaxCalls
    /\ \E url \in page_anchors \cup found_links \cup {NotAString} :
          LET r == is_unwanted_link_call(url, BaseUrl, processed_base_urls)
          IN  /\ processed_base_urls' = r.attr
              /\ calls' = Append(calls, [url |-> url, answer |-> r.answer,
                                         raised |-> r.raised])
    /\ UNCHANGED <<seoVars, crawlVars, fileVars, recVars, page_anchors, found_links, pc,
                   driver,
                   max_urls, exclude_types, messages, all_content, result>>

UrlNext == FindLinks \/ ScopeCall

UrlSpec == UrlInit /\ [][UrlNext]_vars

\* ------------------------------------------- the recursive scrape_page
\* revised_competitor_analysis_scraper.py ("revised"; improved-web-scraper.py
\* and competitor-analysis.py recurse the same way) and scraper-app.py ("app")
MaxRecDepth == 2
MaxLinks == 2

RecPages == {BaseUrl, UrlBlog, UrlNews, UrlLogin}
Hrefs == {BaseUrl, UrlBlog, UrlNews, <<"/login">>, UrlExt}
SeqsUpTo(S, n) == UNION {[1..k -> S] : k \in 0..n}

\* the a elements of the pages of a site: up to MaxLinks on the start page,
\* at most one same-host link on every other page
Sites ==
    {[p \in RecPages |-> IF p = BaseUrl THEN a
                         ELSE IF p = UrlBlog THEN b
                         ELSE IF p = UrlNews THEN c ELSE d] :
        a \in SeqsUpTo(Hrefs, MaxLinks),
        b \in SeqsUpTo(Hrefs \ {UrlExt}, 1),
        c \in SeqsUpTo(Hrefs \ {UrlExt}, 1),
        d \in SeqsUpTo(Hrefs \ {UrlExt}, 1)}

\* urlparse(url).netloc
netloc(url) == Head(url)

\* BeautifulSoup(response.text): the text elements of the page, then its a
\* elements
Soup(url, links) ==
    SelectSeq(Flatten(PageOf(url).containers), LAMBDA e : e.name # "A")
        \o [i \in 1..Len(links) |-> Elem("A", <<>>, links[i], FALSE)]

\* revised lines 36-66
RECURSIVE rev_extract_content(_, _, _, _, _)
rev_extract_content(elems, seen, content, base_url, exclude) ==
    IF elems = <<>> THEN content
    ELSE LET e == Head(elems)
             text == clean_text(e.text)
             hash == md5(text)
         IN
         IF e.excluded
         THEN rev_extract_content(Tail(elems), seen, content, base_url, exclude)
         ELSE IF e.name \in TextTags
         THEN IF /\ "text" \notin exclude
                 /\ text # <<>> /\ Len(text) > MinTextLen
                 /\ hash \notin seen
              THEN rev_extract_content(Tail(elems), seen \cup {hash},
                                       Append(content, Unit(e.name, text)),
                                       base_url, exclude)
              ELSE rev_extract_content(Tail(elems), seen, content, base_url,
                                       exclude)
         ELSE IF e.name = "A" /\ "links" \notin exclude /\ e.href # <<>>
         THEN IF is_valid_url(e.href)
              THEN rev_extract_content(
                       Tail(elems), seen,
                       Append(content, Unit("EXTERNAL LINK", e.href)),
                       base_url, exclude)
              ELSE rev_extract_content(
                       Tail(elems), seen,
                       Append(content, Unit("INTERNAL LINK",
                                            urljoin(base_url, e.href))),
                       base_url, exclude)
         ELSE rev_extract_content(Tail(elems), seen, content, base_url, exclude)

\* scraper-app line 23: soup.get_text(separator='\n', strip=True)
RECURSIVE get_text(_)
get_text(elems) ==
    IF elems = <<>> THEN <<>>
    ELSE LET piece == RStrip(LStrip(Head(elems).text))
             rest == get_text(Tail(elems))
         IN  IF piece = <<>> THEN rest
             ELSE IF rest = <<>> THEN piece
             ELSE piece \o <<"\n">> \o rest

\* revised lines 75-76, scraper-app lines 23, 38: what a page contributes
page_content(v, url, links, exclude) ==
    IF v = "app"
    THEN <<Unit("URL", url), Unit("TEXT", get_text(Soup(url, links)))>>
    ELSE <<Unit("URL", url)>>
             \o rev_extract_content(Soup(url, links), {}, <<>>, url, exclude)

skip_call_visited_only(url, d, limit, vis) == url \in vis

\* revised line 69, scraper-app line 15
skip_call(url, d, limit, vis) == d > limit \/ url \in vis

\* revised line 78; scraper-app follows the links at every depth
follows_links(v, d, limit) == v = "app" \/ d < limit

\* revised line 90: [], scraper-app line 41: the error text
failure_value(v, url) == IF v = "app" THEN <<Unit("ERROR", url)>> ELSE <<>>

Frame(url, d, links, content) ==
    [url |-> url, depth |-> d, links |-> links, content |-> content]

\* a call returns value: to main (revised line 110, scraper-app line 54) or
\* to the calling frame, which extends its content (revised line 82,
\* scraper-app line 35)
Deliver(callers, value) ==
    IF callers = <<>>
    THEN /\ result' = value
         /\ stack' = <<>>
         /\ pc' = "r_returned"
    ELSE /\ stack' = [callers EXCEPT ![Len(callers)].content = @ \o value]
         /\ pc' = "r_run"
         /\ UNCHANGED result

\* revised lines 68-76 and 88-90, scraper-app lines 14-23 and 40-41: the
\* guard of a call, visited.add, requests.get and the content of the page
RecCall(url, d, callers) ==
    IF skip_call(url, d, max_depth, visited)
    THEN /\ Deliver(callers, <<>>)
         /\ UNCHANGED <<visited, fetched, messages>>
    ELSE /\ visited' = visited \cup {url}
         /\ \E ok \in BOOLEAN :
              /\ fetched' = Append(fetched,
                                   [url |-> url, depth |-> d, ok |-> ok])
              /\ IF ok
                 THEN /\ stack' = Append(callers,
                            Frame(url, d,
                                  IF follows_links(variant, d, max_depth)
                                  THEN site[url] ELSE <<>>,
                                  page_content(variant, url, site[url],
                                               exclude_types)))
                      /\ pc' = "r_run"
                      /\ UNCHANGED <<messages, result>>
                 ELSE /\ messages' = IF variant = "app" THEN messages
                                     ELSE messages \cup {"error"}
                      /\ Deliver(callers, failure_value(variant, url))

\* revised line 110, scraper-app line 54: main calls scrape_page(url, 0, ...)
RecStart ==
    /\ pc = "r_call"
    /\ RecCall(BaseUrl, 0, <<>>)
    /\ UNCHANGED <<seoVars, urlVars, fileVars, variant, site, strategies,
                   start_page, strategy_i, all_links, strategy_results,
                   executed, to_visit, futures, future_to_url, depth,
                   max_depth, driver, max_urls, exclude_types, all_content>>

\* revised lines 79-82, scraper-app lines 32-35: one iteration of the loop
\* over the a elements of the page of the innermost call
RecLink ==
    /\ pc = "r_run"
    /\ stack # <<>>
    /\ stack[Len(stack)].links # <<>>
    /\ LET top == stack[Len(stack)]
           base == IF variant = "app" THEN BaseUrl ELSE top.url
           next_url == urljoin(base, Head(top.links))
           callers == [stack EXCEPT ![Len(stack)].links = Tail(top.links)]
       IN  IF is_valid_url(next_url) /\ netloc(next_url) = netloc(base)
           THEN RecCall(next_url, top.depth + 1, callers)
           ELSE /\ stack' = callers
                /\ UNCHANGED <<visited, fetched, messages, result, pc>>
    /\ UNCHANGED <<seoVars, urlVars, fileVars, variant, site, strategies,
                   start_page, strategy_i, all_links, strategy_results,
                   executed, to_visit, futures, future_to_url, depth,
                   max_depth, driver, max_urls, exclude_types, all_content>>

\* revised line 84, scraper-app line 38: the innermost call returns
RecReturn ==
    /\ pc = "r_run"
    /\ stack # <<>>
    /\ stack[Len(stack)].links = <<>>
    /\ Deliver(SubSeq(stack, 1, Len(stack) - 1), stack[Len(stack)].content)
    /\ UNCHANGED <<seoVars, urlVars, fileVars, variant, site, strategies,
                   start_page, strategy_i, all_links, strategy_results,
                   executed, to_visit, visited, futures, future_to_url, depth,
                   max_depth, driver, max_urls, exclude_types, messages,
                   all_content, fetched>>

\* revised lines 95-110, scraper-app lines 46-54: the user's input and the
\* site it points at
RecInit ==
    /\ pc = "r_call"
    /\ variant \in {"revised", "app"}
    /\ site \in Sites
    /\ max_depth \in 0..MaxRecDepth
    /\ exclude_types \in ExcludeChoices
    /\ variant = "app" => exclude_types = {}
    /\ visited = {} /\ stack = <<>> /\ fetched = <<>>
    /\ messages = {} /\ all_content = <<>> /\ result = Unbound
    /\ max_urls = None /\ driver = 0
    /\ strategies = <<>> /\ start_page = NoPage /\ strategy_i = 0
    /\ all_links = <<>> /\ strategy_results = <<>> /\ executed = <<>>
    /\ to_visit = <<>> /\ futures = <<>> /\ future_to_url = {} /\ depth = 0
    /\ artifact = <<>> /\ written_from = <<>>
    /\ SeoIdle
    /\ UrlIdle

RecNext == RecStart \/ RecLink \/ RecReturn

RecSpec == RecInit /\ [][RecNext]_vars

\* ------------------------------ the two extract_content implementations
\* seo_scraper's scrape_pages and the recursive scrape_page, either of which
\* a run may be
TextInit == Init \/ RecInit
TextNext == Next \/ RecNext
TextSpec == TextInit /\ [][TextNext]_vars

\* -------------------------------------------------------------- properties
IsTextUnit(u) == u.tag \in TextTags \cup SchemaTags
Sessions == 1..PoolSize
Idle == {drivers[i] : i \in 1..Len(drivers)}
DynamicPcs == {"dyn_nav", "dyn_loop", "dyn_trigger", "dyn_height", "dyn_finally"}
IsMarker(u) == u.tag = "URL"
\* the units between the marker at position i and the next marker
SegmentAfter(seq, i) ==
    LET later == {j \in (i + 1)..Len(seq) : IsMarker(seq[j])}
        stop == IF later = {} THEN Len(seq) + 1
                ELSE CHOOSE j \in later : \A k \in later : j <= k
    IN  SubSeq(seq, i + 1, stop - 1)
\* the extraction calls whose result the main thread has put into the
\* aggregate: tasks of seo_scraper, futures of the two other scrapers
AppendedTasks == {t \in Tasks : tstate[t] = "collected" /\ tcontent[t] # <<>>}
AppendedFutures ==
    {f \in 1..Len(futures) : futures[f].consumed /\ futures[f].state = "ok"}
\* the URLs discovery has put into content_map
Discovered == UNION {content_map[k] : k \in KindSet}
\* the content type a URL was queued with
QueuedType(u) ==
    (CHOOSE e \in {urls_to_process[i] : i \in 1..Len(urls_to_process)} :
        e[1] = u)[2]

\* C1: the aggregate of one session holds at most one text unit per
\* fingerprint of whitespace-normalized text, whichever resources the text
\* came from and however the workers interleave.
C1_OneUnitPerFingerprint ==
    \A i, j \in 1..Len(all_content) :
        (i < j /\ IsTextUnit(all_content[i]) /\ IsTextUnit(all_content[j]))
            => md5(all_content[i].text) # md5(all_content[j].text)

\* C2: no session is held by two holders at once (tasks of extract_content
\* or the discovery phase), and a session that a holder has is not at the
\* same time idle in the queue, where get_driver would hand it out again.
C2_NoSharedSession ==
    /\ \A t, u \in Tasks :
          (t # u /\ tdriver[t] # 0) => tdriver[t] # tdriver[u]
    /\ \A t \in Tasks : tdriver[t] # 0 =>
          tdriver[t] # driver /\ tdriver[t] \notin Idle
    /\ driver # 0 => driver \notin Idle

C2_TwoHolders ==
    \E t, u \in Tasks : t # u /\ tdriver[t] # 0 /\ tdriver[u] # 0

\* C3: every session taken by extract_content or by dynamic discovery is
\* returned exactly once on every exit path: a finished task and a discovery
\* past its finally hold nothing, and whenever nobody is between get_driver
\* and return_driver the queue holds every session exactly once.
C3_AllReturned ==
    /\ \A t \in Tasks : tstate[t] \in {"done", "collected"} => tdriver[t] = 0
    /\ pc \in {"clean", "discovered", "batch", "collect"} => driver = 0
    /\ ( /\ pc \notin {"returned", "propagated", "written"}
         /\ driver = 0
         /\ \A t \in Tasks : tdriver[t] = 0 )
       => Len(drivers) = PoolSize /\ Idle = Sessions

C3_FinishedAfterRaise ==
    /\ pc = "batch" /\ batch_start >= Len(urls_to_process)
    /\ Len(tstate) >= 2
    /\ \E t \in Tasks : tcontent[t] = <<ErrorUnit>>
    /\ \E t \in Tasks : tcontent[t] # <<ErrorUnit>>
    /\ Idle = Sessions

C8_ZeroLimitSkips ==
    /\ [](dynamic_limit = 0 =>
            /\ driver = 0
            /\ pc \notin DynamicPcs
            /\ dynamic_attempts = 0 /\ content_hash = 0)
    /\ []((dynamic_limit = 0 /\ pc = "clean") => "skipped" \in messages)
    /\ [][(dynamic_limit = 0 /\ pc \in {"dynamic", "clean"})
            => (content_map' = content_map /\ drivers' = drivers)]_vars

C8_SkippedWithStaticContent ==
    /\ dynamic_limit = 0 /\ pc = "clean"
    /\ "skipped" \in messages
    /\ content_map["page"] # {} /\ content_map["article"] # {}

C10_FrontierUnvisited ==
    to_process \cap processed_urls = {}

\* C11: at the end of discovery the visited set has as many URLs as there are
\* distinct canonical URLs that were taken out of the frontier, fetched with
\* success or not.
C11_VisitedCountsDequeued ==
    pc = "clean" =>
        Cardinality(processed_urls)
            = Cardinality({clean_url(u) : u \in dequeued})

\* C12: a failed fetch of a frontier URL during static harvest does not end
\* the session with an exception, whichever URL fails (the seed and the first
\* result of a batch included), and the failed URL is recorded as processed.
C12_FetchFailureSkipped ==
    /\ pc \notin {"raised", "propagated"}
    /\ failed \subseteq processed_urls

\* C13: a run of scrape_pages that has discovered no resource ends by
\* returning the empty result, with the 'no content discovered' report and
\* the pool drained, and not with an exception handed to the caller.
C13_NoContentReported ==
    ( /\ pc \in {"returned", "propagated"}
      /\ \A k \in KindSet : content_map[k] = {} )
        => /\ pc = "returned"
           /\ result = <<>>
           /\ "no_content" \in messages
           /\ drivers = <<>>

\* C14: when the renderer raises inside extract_content, the call leaves
\* exactly one unit, tagged ERROR and carrying the failure text, nothing is
\* raised to the caller, and the session goes on: at the return of
\* scrape_pages every queued resource has been extracted and consumed, the
\* others with the content of their own page.
C14_ErrorUnitReturned ==
    /\ \A t \in Tasks :
          (traised[t] /\ tstate[t] \in {"finally", "done", "collected"})
              => /\ Len(tcontent[t]) = 1
                 /\ tcontent[t][1].tag = "ERROR"
                 /\ tcontent[t][1].text = ErrorUnit.text
    /\ (\E t \in Tasks : traised[t]) => pc \notin {"raised", "propagated"}
    /\ (pc = "returned" /\ \E t \in Tasks : traised[t])
          => /\ Len(tstate) = Len(urls_to_process)
             /\ \A t \in Tasks : tstate[t] = "collected"
             /\ \A t \in Tasks : ~traised[t] =>
                    tcontent[t] = extract_content(urls_to_process[t][1],
                                                  urls_to_process[t][2],
                                                  BaseUrl, exclude_types, FALSE)

C14_ReturnedWithErrorUnit ==
    /\ pc = "returned"
    /\ \E t, u \in Tasks :
          /\ traised[t] /\ ~traised[u] /\ tcontent[u] # <<>>
    /\ \E i \in 1..Len(result) : result[i] = ErrorUnit
    /\ \E i \in 1..Len(result) : result[i].tag \notin {"ERROR", "URL"}

\* C15: in the aggregate of scrape_pages, for every completion order of the
\* workers, the units that follow a marker of URL u are the units that
\* extract_content produced for u (its page content, or the one ERROR unit).
C15_MarkerMatchesUnits ==
    \A i \in 1..Len(all_content) :
        IsMarker(all_content[i]) =>
            LET u == all_content[i].text IN
            SegmentAfter(all_content, i) \in
                {extract_content(u, QueuedType(u), BaseUrl, exclude_types, r) :
                    r \in BOOLEAN}

\* C16: in the aggregate, for every interleaving of the extraction workers,
\* the units of one extraction call are contiguous and the units of two
\* resources are never interleaved: the aggregate is a sequence of blocks,
\* one per call whose result was appended, each a marker followed by exactly
\* the content list of one call.
C16_UnitsContiguous ==
    LET markers == {i \in 1..Len(all_content) : IsMarker(all_content[i])} IN
    /\ all_content # <<>> => IsMarker(all_content[1])
    /\ \A i \in markers :
          SegmentAfter(all_content, i) \in
              {tcontent[t] : t \in AppendedTasks}
                  \cup {futures[f].content : f \in AppendedFutures}
    /\ Cardinality(markers)
          = Cardinality(AppendedTasks) + Cardinality(AppendedFutures)

C16_TwoBlocksAfterOverlap ==
    /\ pc = "collect"
    /\ \E t, u \in AppendedTasks :
          /\ t < u /\ Len(tcontent[t]) >= 2 /\ Len(tcontent[u]) >= 2
          /\ tcontent[t] # tcontent[u]
          /\ all_content = <<Unit("URL", urls_to_process[1][1])>> \o tcontent[u]
                            \o <<Unit("URL", urls_to_process[2][1])>>
                            \o tcontent[t]

\* C17: when the max_urls cap ends the loop of adaptive_crawl, every task
\* already submitted has finished at the return, and the content of every
\* task that succeeded is in the returned aggregate, under the marker of its
\* URL.
C17_SubmittedContentReturned ==
    (pc = "a_returned" /\ max_urls # None) =>
        \A f \in 1..Len(futures) :
            /\ Finished(f)
            /\ (futures[f].state = "ok" /\ futures[f].content # <<>>) =>
                  \E i \in 1..Len(result) :
                      /\ result[i] = Unit("URL", futures[f].url)
                      /\ SegmentAfter(result, i) = futures[f].content

\* C18: once the number of discovered URLs has reached max_urls, static and
\* dynamic harvest stop: discovery submits no further batch of fetches and
\* takes no session to render a page.
C18_CapStopsDiscovery ==
    [][ ( /\ max_urls # None
          /\ Cardinality(Discovered) >= max_urls
          /\ pc \in {"static", "dynamic"} )
        => /\ ~(pending = {} /\ pending' # {})
           /\ ~(driver = 0 /\ driver' # 0) ]_vars

\* C19: with max_urls unset no cap applies and the crawl runs to completion
\* over all discovered URLs in each concurrent scraper: adaptive_crawl raises
\* nothing and returns with an empty frontier, scrape_pages of selenium_tool
\* has visited every wanted link, scrape_pages of seo_scraper queues every
\* discovered URL.
C19_NoCapRunsAll ==
    max_urls = None =>
        /\ pc \notin {"a_raise", "a_propagated"}
        /\ pc = "a_returned" => to_visit = <<>>
        /\ pc = "t_returned" =>
              \A i \in 1..Len(all_links) :
                  ~tool_is_unwanted_link(all_links[i], BaseUrl)
                      => all_links[i] \in visited
        /\ pc \in {"batch", "collect", "returned"} =>
              {urls_to_process[i][1] : i \in 1..Len(urls_to_process)}
                  = {clean_url(u) : u \in Discovered}

\* C20: load_more_content evaluates the strategies in the order pagination,
\* load-more, infinite scroll: with the three strategies enabled, infinite
\* scroll is executed only when neither pagination nor load-more applies to
\* the page.
C20_ScrollLast ==
    ( /\ pc = "a_load"
      /\ strategies = Strategies(TRUE, TRUE, TRUE)
      /\ \E i \in 1..Len(executed) : executed[i] = "InfiniteScrollStrategy" )
        => /\ start_page.pagination = "none"
           /\ start_page.load_more = "none"

\* C21: in one pass of load_more_content at most one strategy is executed,
\* the first applicable one: when the page shows an enabled next-page control
\* and the pagination strategy ran without raising, no other strategy is
\* executed in that pass, whether or not pagination revealed links.
C21_PaginationExcludesOthers ==
    ( /\ executed # <<>>
      /\ executed[1] = "PaginationStrategy"
      /\ start_page.pagination \in {"next", "arrow"}
      /\ \A i \in 1..Len(strategy_results) :
            strategy_results[i] # <<"PaginationStrategy", "Failed">> )
        => Len(executed) = 1

\* C22: a strategy that raises, in is_applicable or in execute, is treated as
\* not applicable and the next strategy in order is tried: once the loop over
\* the strategies has begun, load_more_content is left only with the loop run
\* to its end (or broken off by a strategy that revealed links), never by
\* the fallback of adaptive_crawl.
C22_RaiseSkipsStrategy ==
    (pc = "a_quit" /\ strategy_i >= 1)
        => /\ strategy_i > Len(strategies)
           /\ strategy_results # <<"Fallback">>

\* C25: static harvest terminates with an empty frontier, also when fetches
\* fail: every step that leaves the static harvest is the end of its loop,
\* taken with nothing left in the frontier and no fetch outstanding, and it
\* hands over to the rest of the discovery.
C25_StaticEndsWithEmptyFrontier ==
    [][(pc = "static" /\ pc' # "static")
          => (pc' = "dynamic" /\ to_process' = {} /\ pending' = {})]_vars

\* the URLs reachable from the seed through the in-scope links of the pages
\* recorded as visited, which are the pages with a successful fetch
RECURSIVE Reach(_)
Reach(set) ==
    LET step == set \cup
            {clean_url(l) : l \in
                {a \in UNION {find_all_links(Anchors(p), p) :
                                 p \in set \cap processed_urls} :
                    startswith(a, BaseUrl) /\ ~is_unwanted_link(a, BaseUrl)}}
    IN  IF step = set THEN set ELSE Reach(step)

\* C26: when static harvest ends, every in-scope URL reachable from the seed
\* through links of successfully fetched pages has been fetched, and each of
\* them whose fetch did not fail is in content_map.
C26_ReachableHarvested ==
    (pc = "dynamic" /\ driver = 0 /\ dynamic_attempts = 0)
        => \A u \in Reach({clean_url(BaseUrl)}) :
               /\ u \in dequeued
               /\ u \notin failed => u \in Discovered
\* static harvest has ended with a linked page harvested and a failed fetch
C26_Witness ==
    /\ pc = "dynamic" /\ driver = 0
    /\ UrlBlog \in Reach({clean_url(BaseUrl)})
    /\ UrlBlog \in content_map["article"]
    /\ failed # {}

\* C27: every URL of content_map is stored under the kind classify_url gives
\* for its canonical form, hence under exactly one kind, and the extraction
\* queue holds each URL at most once, with that kind.
C27_OneKindPerUrl ==
    /\ \A k \in KindSet : \A u \in content_map[k] :
          /\ classify_url(clean_url(u)) = k
          /\ \A other \in KindSet \ {k} : u \notin content_map[other]
    /\ \A i, j \in 1..Len(urls_to_process) :
          /\ urls_to_process[i][2] = classify_url(urls_to_process[i][1])
          /\ i # j => urls_to_process[i][1] # urls_to_process[j][1]
\* the queue has been built from a map holding a page, a statically found
\* article and a dynamically found article
C27_Witness ==
    /\ pc = "batch"
    /\ BaseUrl \in content_map["page"]
    /\ {UrlBlog, UrlNews} \subseteq content_map["article"]
    /\ Len(urls_to_process) >= 3

\* task t takes a step of its extract_content: it is one of the pool threads
\* that moves, not the main thread
WorkerStep(t) ==
    /\ t \in DOMAIN tstate /\ t \in DOMAIN tstate'
    /\ tstate[t] \in {"queued", "get", "use", "finally"}
    /\ tstate'[t] # tstate[t]

\* C28: visited, content_map and the seen fingerprints are never updated by
\* two workers: in every interleaving a step of a worker leaves visited,
\* content_map and the aggregate alone and writes no other worker's content,
\* so every update of the shared collections is a step of the main thread.
C28_OnlyMainThreadUpdates ==
    [][\A t \in DOMAIN tstate :
          WorkerStep(t) =>
              /\ UNCHANGED <<processed_urls, content_map, all_content>>
              /\ \A u \in DOMAIN tcontent \ {t} : tcontent'[u] = tcontent[u]]_vars
\* two workers are in their calls at once, one has produced content
C28_Witness ==
    \E t, u \in DOMAIN tstate :
        /\ t # u
        /\ tstate[t] = "use"
        /\ tstate[u] = "finally" /\ tcontent[u] # <<>>

\* C23: get_driver never hands out a session that crashed during an earlier
\* use: the session a task holds when its get_driver returns is healthy
\* (the pool has replaced an unhealthy one by a fresh session).
C23_HealthySessionHandedOut ==
    [][\A t \in DOMAIN tstate :
          (t \in DOMAIN tstate' /\ tstate[t] = "get" /\ tstate'[t] = "use")
              => tdriver'[t] \notin crashed']_vars

\* C24: on every exit of scrape_pages, by return or by exception, also by an
\* exception raised while the pool is being created, no session is left:
\* none idle in the pool's queue and none held by a caller.
C24_NoSessionLeftAtExit ==
    pc \in {"returned", "propagated"}
        => /\ drivers = <<>>
           /\ driver = 0
           /\ \A t \in DOMAIN tdriver : tdriver[t] = 0

\* the URL without its fragment and without a trailing slash
Canonical(u) ==
    LET page == BeforeHash(u) IN
    IF page # <<>> /\ page[Len(page)] = "/" THEN SubSeq(page, 1, Len(page) - 1)
    ELSE page

\* C29: URLs that differ only by a fragment or only by a trailing slash are
\* folded into one canonical URL, so the links of a page that name one
\* resource give one entry; normalization is idempotent.
C29_OneCanonicalUrl ==
    pc = "u_scope"
        => /\ \A l \in found_links : clean_url(l) = l
           /\ (\A a, b \in page_anchors : Canonical(a) = Canonical(b))
                  => Cardinality(found_links) = 1

\* C30: is_unwanted_link is deterministic and total: the same URL gets the
\* same answer whatever calls were made before, no call raises, and an
\* argument it cannot process is answered out of scope.
C30_ScopeTestDeterministic ==
    /\ \A i, j \in 1..Len(calls) :
          calls[i].url = calls[j].url => calls[i].answer = calls[j].answer
    /\ \A i \in 1..Len(calls) :
          /\ ~calls[i].raised
          /\ calls[i].url = NotAString => calls[i].answer
\* the same in-site URL with a fragment was tested twice, with another call
\* between, and a value that is not a string was tested
C30_Witness ==
    /\ Len(calls) = 3
    /\ calls[1].url = calls[3].url
    /\ Contains(calls[1].url, "#") /\ startswith(calls[1].url, BaseUrl)
    /\ calls[2].url = NotAString

\* the URL of the last marker before position i, <<>> when there is none
MarkerBefore(seq, i) ==
    LET before == {j \in 1..(i - 1) : IsMarker(seq[j])} IN
    IF before = {} THEN <<>>
    ELSE seq[CHOOSE j \in before : \A k \in before : k <= j].text

\* C31: in the written file every content line stands under the [URL]
\* marker it stood under in the returned content, that of its resource,
\* whatever was excluded, also when 'blog posts' lines are left out.
C31_LinesUnderOwnMarker ==
    pc = "written" =>
        \A k \in 1..Len(artifact) :
            ~IsMarker(artifact[k]) =>
                MarkerBefore(artifact, k) = MarkerBefore(result, written_from[k])

\* C32: pool conservation: from the creation of the pool to its drain the
\* sessions idle in the queue and the sessions held by callers are together
\* as many as the pool size, and no session is in the queue twice.
C32_PoolConserved ==
    pc \notin {"create", "returned", "propagated", "written"}
        => /\ Len(drivers)
                + Cardinality({t \in Tasks : tdriver[t] # 0})
                + (IF driver # 0 THEN 1 ELSE 0) = PoolSize
           /\ \A i, j \in 1..Len(drivers) : i # j => drivers[i] # drivers[j]
\* every session is held by a worker, one of them was returned and taken
\* again before
C32_Witness ==
    /\ drivers = <<>>
    /\ Cardinality({t \in Tasks : tdriver[t] # 0}) = PoolSize
    /\ \E t \in Tasks : tstate[t] \in {"done", "collected"}

\* C33: no extraction worker blocks forever in get_driver: under fair
\* scheduling, where every extraction step terminates, a worker that has
\* called get_driver eventually holds a session, so that again and again no
\* worker is waiting in get_driver.
C33_GetDriverReturns ==
    []<>(\A t \in Tasks : tstate[t] # "get")
\* a worker is in get_driver while other workers hold sessions
C33_Witness ==
    \E t \in Tasks :
        /\ tstate[t] = "get"
        /\ Len(drivers) < PoolSize
        /\ \E u \in Tasks : tstate[u] \in {"done", "collected"}

\* C34: static harvest fetches each canonical URL at most once: a URL that
\* is taken out of the frontier and submitted for fetching has not been
\* taken out before, whether its earlier fetch succeeded or failed.
C34_FetchedAtMostOnce ==
    [][pc = "static" => (pending' \ pending) \cap dequeued = {}]_vars

\* C35: no session is used after it was quit or returned: the dynamic
\* harvest and an extract_content call operate on a session they hold and
\* that is not idle in the pool, and adaptive_crawl calls its session (to
\* load the page, and to gather links after a result at line 284) only
\* while the session has not been quit.
C35_NoUseAfterRelease ==
    [][/\ (pc \in {"dyn_nav", "dyn_loop", "dyn_trigger", "dyn_height",
                    "udyn_nav", "udyn_loop", "udyn_body"} /\ pc' # pc)
            => (driver # 0 /\ driver \notin Idle)
       /\ \A t \in Tasks :
             (tstate[t] = "use" /\ tstate'[t] = "finally")
                 => (tdriver[t] # 0 /\ tdriver[t] \notin Idle)
       /\ (pc \in {"a_get", "a_load"} /\ pc' # pc) => driver # 0
       /\ \A f \in DOMAIN futures :
             ( /\ pc = "a_collect" /\ depth < max_depth
               /\ futures[f].state = "ok"
               /\ ~futures[f].consumed /\ futures'[f].consumed )
                 => driver # 0]_vars

\* C36: in each concurrent variant the number of resources submitted to
\* extraction workers never exceeds max_urls when max_urls is a positive
\* integer, and no URL is submitted twice: the futures of adaptive_crawl and
\* of selenium_tool's scrape_pages, and the tasks of seo_scraper's
\* scrape_pages, are within the cap and carry pairwise different URLs.
C36_SubmittedWithinCap ==
    /\ (max_urls # None /\ max_urls > 0)
          => /\ Len(futures) <= max_urls
             /\ Len(tstate) <= max_urls
    /\ \A f, g \in DOMAIN futures :
          f # g => futures[f].url # futures[g].url
    /\ \A s, t \in Tasks :
          s # t => urls_to_process[s][1] # urls_to_process[t][1]

\* the cap cut the queue: more URLs were discovered than max_urls, and
\* max_urls tasks were submitted
C36_Witness ==
    /\ max_urls # None
    /\ Len(tstate) = max_urls
    /\ Cardinality({clean_url(u) : u \in Discovered}) > max_urls
    /\ pc = "collect"

\* the same-host pages the a elements of page u point at
LinkTargets(u) ==
    {t \in {urljoin(u, site[u][i]) : i \in 1..Len(site[u])} :
        is_valid_url(t) /\ netloc(t) = netloc(u)}

\* the pages whose shortest link distance from the seed is at most k
RECURSIVE Within(_)
Within(k) ==
    IF k = 0 THEN {BaseUrl}
    ELSE Within(k - 1) \cup UNION {LinkTargets(u) : u \in Within(k - 1)}

FetchedUrls == {fetched[i].url : i \in DOMAIN fetched}

\* C37: in the recursive scrape_page variants every same-host page whose
\* shortest link distance from the seed is at most max_depth is scraped,
\* whatever order the links are followed in: when a run in which no fetch
\* failed has returned, every such page has been fetched.
C37_AllWithinDepthScraped ==
    ( /\ pc = "r_returned"
      /\ variant = "revised"
      /\ \A i \in DOMAIN fetched : fetched[i].ok )
        => Within(max_depth) \subseteq FetchedUrls

\* C38: in the recursive scrape_page variants no URL is fetched at a depth
\* greater than max_depth, each URL is fetched at most once per run, and a
\* failed fetch of one page leaves the content already collected from other
\* pages in the result: once the seed call has returned from a seed page that
\* was fetched, the block of every page whose fetch succeeded is in the result.
C38_BoundedOnceAndKept ==
    /\ \A i \in DOMAIN fetched : fetched[i].depth <= max_depth
    /\ \A i, j \in DOMAIN fetched :
          i # j => fetched[i].url # fetched[j].url
    /\ pc = "r_returned" =>
          \A i \in DOMAIN fetched :
              fetched[i].ok =>
                  LET block == page_content(variant, fetched[i].url,
                                            site[fetched[i].url],
                                            exclude_types)
                  IN  \E k \in 1..Len(result) :
                          /\ k + Len(block) - 1 <= Len(result)
                          /\ SubSeq(result, k, k + Len(block) - 1) = block

\* a run that fetched two pages, then failed on a third at depth max_depth,
\* and returned the blocks of the first two
C38_Witness ==
    /\ pc = "r_returned"
    /\ Len(fetched) >= 3
    /\ fetched[1].ok /\ fetched[2].ok /\ ~fetched[3].ok
    /\ fetched[3].depth = max_depth
    /\ \E k \in 1..Len(result) : result[k] = Unit("URL", fetched[2].url)

\* a text with every run of whitespace collapsed and the ends stripped
Normalized(text) == RStrip(LStrip(Collapse(text)))

NoTwoSameText(units) ==
    \A i, j \in 1..Len(units) :
        (i # j /\ IsTextUnit(units[i]) /\ IsTextUnit(units[j]))
            => Normalized(units[i].text) # Normalized(units[j].text)

\* the innermost scrape_page call holds what extract_content returned for its
\* page and nothing else: no link of the page has been followed yet
FreshFrame ==
    /\ variant = "revised"
    /\ stack # <<>>
    /\ LET top == stack[Len(stack)] IN
          top.links = IF follows_links(variant, top.depth, max_depth)
                      THEN site[top.url] ELSE <<>>

\* C39: within the units returned by one extract_content call no two text
\* units (schema.org articleBody/description, headings, paragraphs, list
\* items) have the same whitespace-normalized text: so for the content of
\* every extraction task of seo_scraper, and for the content extract_content
\* of the revised scraper returned to scrape_page.
C39_NoRepeatedText ==
    /\ \A t \in Tasks : NoTwoSameText(tcontent[t])
    /\ FreshFrame => NoTwoSameText(stack[Len(stack)].content)

\* the start page holds two paragraphs that differ in whitespace only; the
\* task that extracted it returned one paragraph unit with their text
C39_Witness ==
    \E t \in Tasks :
        /\ tstate[t] = "done"
        /\ urls_to_process[t][1] = BaseUrl
        /\ Normalized(TextA) = Normalized(TextA2)
        /\ TextA # TextA2
        /\ Cardinality({i \in 1..Len(tcontent[t]) :
                            tcontent[t][i] = Unit("P", Normalized(TextA))}) = 1


====
